---- MODULE Spec2Model ----
(***************************************************************************)
(* Model of the 4-D gridded statistics engine of mmctools                  *)
(* (helper_functions.py): model4D_calcQOIs and the spectral estimators     *)
(* model4D_spectra, model4D_spatial_spectra, model4D_cospectra and         *)
(* model4D_spatial_cospectra.                                              *)
(*                                                                         *)
(* Numbers are exact rationals <<n, d>> in lowest terms (d > 0): floating  *)
(* point rounding is not modelled.  A DataArray is a record                *)
(*   [dims |-> the dimension names it has,                                 *)
(*    fn   |-> "id" | "halfsqrt" (the value denoted is fn of the stored),  *)
(*    sym  |-> whether the stored values are symbolic terms,               *)
(*    val  |-> the values over the dataset grid, in broadcast form]        *)
(* An index of the grid is <<t, z, y, x>>, counted from 0 as in Python.    *)
(***************************************************************************)
EXTENDS Integers, Sequences, FiniteSets, Bags, TLC

VARIABLES
    ds,     \* the caller's dataset object (mutable, as an xarray Dataset is)
    old,    \* the value of that object when the last call started
    call,   \* the last call: its name and arguments
    ret     \* the outcome of the last call

vars == <<ds, old, call, ret>>

----------------------------------------------------------------------------
(* Bounds of the model. *)

\* the horizontal dimensions ny and nx have 1..MaxDim entries each
MaxDim == 2
\* the time dimension has 1..MaxT entries
MaxT == 4
\* the raw fields take the values 0..MaxVal
MaxVal == 2

----------------------------------------------------------------------------
(* Exact rational arithmetic. *)

Abs(n) == IF n < 0 THEN -n ELSE n

RECURSIVE GCD(_, _)
GCD(a, b) == IF b = 0 THEN a ELSE GCD(b, a % b)

Norm(n, d) ==
    LET g == GCD(Abs(n), d) IN <<n \div g, d \div g>>

RAdd(p, q) == Norm(p[1] * q[2] + q[1] * p[2], p[2] * q[2])
RSub(p, q) == Norm(p[1] * q[2] - q[1] * p[2], p[2] * q[2])
RMul(p, q) == Norm(p[1] * q[1], p[2] * q[2])
RDivInt(p, n) == Norm(p[1], p[2] * n)

----------------------------------------------------------------------------
(* The dataset: dimensions, grid, variables. *)

DimNames == {"datetime", "nz", "ny", "nx"}

\* position of a dimension in an index <<t, z, y, x>>
Pos(d) ==
    CASE d = "datetime" -> 1
      [] d = "nz" -> 2
      [] d = "ny" -> 3
      [] d = "nx" -> 4

Idx(sz) ==
    (0 .. sz["datetime"] - 1) \X (0 .. sz["nz"] - 1)
        \X (0 .. sz["ny"] - 1) \X (0 .. sz["nx"] - 1)

SetAt(i, d, j) == [i EXCEPT ![Pos(d)] = j]

\* the data variables of a raw dataset, in the order they were inserted
BaseOrder == <<"u", "v", "w", "theta", "wspd", "wdir", "p">>
BaseVars == {BaseOrder[k] : k \in 1 .. Len(BaseOrder)}

VarNo(v) == CHOOSE k \in 1 .. Len(BaseOrder) : BaseOrder[k] = v

\* a synthetic raw field: the value of variable v at index i, for a seed
RawVal(seed, v, i) ==
    ((seed + VarNo(v)) * (1 + i[1]) + (VarNo(v) + 1) * i[3] * (1 + i[1])
        + (2 * VarNo(v) + seed + 1) * i[4] + (seed + 1) * i[2] * (1 + i[1] + i[4])
        + i[1] * i[3] * i[4] + VarNo(v) * i[1] * i[1])
        % (MaxVal + 1)

Seeds == {0, 1}

\* variables that may be absent from a loaded dataset ("none": all present)
Absent == {"none", "u", "wspd", "p"}

GridSpacing == ("DX" :> <<2, 1>>) @@ ("DY" :> <<3, 1>>)

RawDataset(sz, seed, missing) ==
    [dims   |-> sz,
     vars   |-> [v \in BaseVars \ {missing} |->
                    [dims |-> DimNames, fn |-> "id", sym |-> FALSE,
                     val  |-> [i \in Idx(sz) |-> <<RawVal(seed, v, i), 1>>]]],
     attrs  |-> GridSpacing,
     \* timestamps in nanoseconds, half a second apart
     coords |-> [datetime |-> [t \in 0 .. sz["datetime"] - 1 |-> t * 500000000]]]

\* the numbers of vertical levels of the datasets
LevelCounts == {1, 2}

\* the shapes of the datasets: one, two or MaxT time instances, one or
\* MaxDim points along each horizontal axis
Shapes ==
    {sz \in [DimNames -> 1 .. (IF MaxT > MaxDim THEN MaxT ELSE MaxDim)] :
        /\ sz["datetime"] \in {1, 2, MaxT}
        /\ sz["nz"] \in LevelCounts
        /\ sz["ny"] \in {1, MaxDim}
        /\ sz["nx"] \in {1, MaxDim}}

RawDatasets ==
    {RawDataset(sz, seed, missing) :
        sz \in Shapes, seed \in Seeds, missing \in Absent}

----------------------------------------------------------------------------
(* DataArray arithmetic (xarray broadcasts by dimension name).  A symbolic  *)
(* value is a term <<"num", n, d>>, <<"sub", a, b>>, <<"add", a, b>>,      *)
(* <<"mul", a, b>> or <<"lowess", series, win, length, delta, t>>.         *)

Term(a, i) == IF a.sym THEN a.val[i] ELSE <<"num", a.val[i][1], a.val[i][2]>>

\* a variant of ASub that subtracts the wrong way round
ASub_reversed(a, b) ==
    [dims |-> a.dims \cup b.dims, fn |-> "id", sym |-> a.sym \/ b.sym,
     val  |-> [i \in DOMAIN a.val |->
                 IF a.sym \/ b.sym THEN <<"sub", Term(b, i), Term(a, i)>>
                 ELSE RSub(b.val[i], a.val[i])]]

ASub(a, b) ==
    [dims |-> a.dims \cup b.dims, fn |-> "id", sym |-> a.sym \/ b.sym,
     val  |-> [i \in DOMAIN a.val |->
                 IF a.sym \/ b.sym THEN <<"sub", Term(a, i), Term(b, i)>>
                 ELSE RSub(a.val[i], b.val[i])]]

AAdd(a, b) ==
    [dims |-> a.dims \cup b.dims, fn |-> "id", sym |-> a.sym \/ b.sym,
     val  |-> [i \in DOMAIN a.val |->
                 IF a.sym \/ b.sym THEN <<"add", Term(a, i), Term(b, i)>>
                 ELSE RAdd(a.val[i], b.val[i])]]

AMul(a, b) ==
    [dims |-> a.dims \cup b.dims, fn |-> "id", sym |-> a.sym \/ b.sym,
     val  |-> [i \in DOMAIN a.val |->
                 IF a.sym \/ b.sym THEN <<"mul", Term(a, i), Term(b, i)>>
                 ELSE RMul(a.val[i], b.val[i])]]

\* a variant of HalfSqrt that leaves the root out
HalfSqrt_noRoot(a) == a

\* 0.5*np.sqrt(a): the stored value is the radicand
HalfSqrt(a) == [a EXCEPT !.fn = "halfsqrt"]

RECURSIVE SumAlong(_, _, _, _)
\* sum of val over the first n entries of dimension d, the rest of i fixed
SumAlong(val, i, d, n) ==
    IF n = 0 THEN <<0, 1>>
    ELSE RAdd(SumAlong(val, i, d, n - 1), val[SetAt(i, d, n - 1)])

\* DataArray.mean(dim=d): the arithmetic average over d, d removed
MeanArr(a, d, sz) ==
    IF d \notin a.dims THEN a
    ELSE [dims |-> a.dims \ {d}, fn |-> a.fn, sym |-> a.sym,
          val  |-> [i \in DOMAIN a.val |->
                      RDivInt(SumAlong(a.val, i, d, sz[d]), sz[d])]]

\* Dataset.mean(dim=d) over every data variable
DsMean(d, mean_dim) ==
    [v \in DOMAIN d.vars |-> MeanArr(d.vars[v], mean_dim, d.dims)]

\* Dataset - Dataset: the data variables the two have in common
DsSub(dvars, means) ==
    [v \in (DOMAIN dvars) \cap (DOMAIN means) |-> ASub(dvars[v], means[v])]

----------------------------------------------------------------------------
(* model4D_calcQOIs *)

\* a variant of TsVarKeys that asks for the pressure as well
TsVarKeys_withPressure == <<"u", "v", "w", "theta", "wspd", "wdir", "p">>

\* line 331: the variables smoothed for tslist output
TsVarKeys == <<"u", "v", "w", "theta", "wspd", "wdir">>

InOrder(present) == SelectSeq(BaseOrder, LAMBDA v : v \in present)

win_size == 18000

Raise(d, exc) == [ds |-> d, ret |-> [status |-> "error", exc |-> exc, ref |-> "none"]]

\* the series of a cell along datetime, as lowess is handed it
CellSeries(a, i, sz) ==
    [t \in 1 .. sz["datetime"] |-> a.val[SetAt(i, "datetime", t - 1)]]

\* a variant of LowessArr that reads var[:,jj,0] whatever ii is
LowessArr_firstColumn(a, sz, series_length, lowess_delta) ==
    [dims |-> DimNames, fn |-> "id", sym |-> TRUE,
     val  |-> [i \in DOMAIN a.val |->
                 <<"lowess", CellSeries(a, SetAt(i, "nx", 0), sz), win_size,
                   series_length, lowess_delta, i[1]>>]]

\* the smoothed mean of one variable: every (nz, ny, nx) cell is smoothed
\* along datetime from its own series
LowessArr(a, sz, series_length, lowess_delta) ==
    [dims |-> DimNames, fn |-> "id", sym |-> TRUE,
     val  |-> [i \in DOMAIN a.val |->
                 <<"lowess", CellSeries(a, i, sz), win_size, series_length,
                   lowess_delta, i[1]>>]]

\* what lowess(endog, exog, frac=win_size/series_length, ...) raises: endog
\* and exog must be of one length, and a frac above 1 is rejected by the
\* statsmodels releases that check it (frac_checked) and conformed to the
\* whole series by the releases that do not
LowessExc(nt, series_length, frac_checked) ==
    IF series_length # nt THEN "ValueError"
    ELSE IF frac_checked /\ win_size > series_length THEN "ValueError"
    ELSE "none"

RECURSIVE LowessMeans(_, _, _, _, _, _, _)
\* the loop over var_keys of the 'lowess' branch, from its k-th variable on
LowessMeans(d, keys, k, means, series_length, lowess_delta, frac_checked) ==
    IF k > Len(keys) THEN [means |-> means, exc |-> "none"]
    ELSE IF keys[k] \notin DOMAIN d.vars THEN [means |-> means, exc |-> "KeyError"]
    ELSE IF LowessExc(d.dims["datetime"], series_length, frac_checked) # "none"
         THEN [means |-> means,
               exc |-> LowessExc(d.dims["datetime"], series_length, frac_checked)]
    ELSE LowessMeans(d, keys, k + 1,
            (keys[k] :> LowessArr(d.vars[keys[k]], d.dims, series_length, lowess_delta))
                @@ means,
            series_length, lowess_delta, frac_checked)

\* the assignments onto ds, in order, each <<target, kind, a, b>>:
\* "mean": ds[target] = ds_means[a];  "pert": ds[target] = ds_perts[a]*ds_perts[b];
\* "tke": ds[target] = 0.5*np.sqrt(ds[a]+ds[b])
MeanAssignments ==
    << <<"uMean", "mean", "u", "u">>, <<"vMean", "mean", "v", "v">>,
       <<"wMean", "mean", "w", "w">>, <<"thetaMean", "mean", "theta", "theta">>,
       <<"UMean", "mean", "wspd", "wspd">>, <<"UdirMean", "mean", "wdir", "wdir">> >>

PressureAssignment == << <<"pMean", "mean", "p", "p">> >>

MomentAssignments ==
    << <<"uu", "pert", "u", "u">>, <<"vv", "pert", "v", "v">>,
       <<"ww", "pert", "w", "w">>, <<"uv", "pert", "u", "v">>,
       <<"uw", "pert", "u", "w">>, <<"vw", "pert", "v", "w">>,
       <<"wth", "pert", "w", "theta">>, <<"UU", "pert", "wspd", "wspd">>,
       <<"Uw", "pert", "wspd", "wspd">>, <<"TKE", "tke", "UU", "ww">> >>

\* a variant of Assignments that never attaches pMean
Assignments_noPressure(data_type) == MeanAssignments \o MomentAssignments

\* lines 379-398
Assignments(data_type) ==
    MeanAssignments
        \o (IF data_type # "ts" THEN PressureAssignment ELSE << >>)
        \o MomentAssignments

RECURSIVE Assign(_, _, _, _, _)
\* runs the assignments from the k-th on; stops at the first absent source
Assign(dvars, means, perts, steps, k) ==
    IF k > Len(steps) THEN [vars |-> dvars, exc |-> "none"]
    ELSE LET s == steps[k]
             src == CASE s[2] = "mean" -> means
                      [] s[2] = "pert" -> perts
                      [] s[2] = "tke" -> dvars
         IN IF s[3] \notin DOMAIN src \/ s[4] \notin DOMAIN src
            THEN [vars |-> dvars, exc |-> "KeyError"]
            ELSE LET new == CASE s[2] = "mean" -> src[s[3]]
                              [] s[2] = "pert" -> AMul(src[s[3]], src[s[4]])
                              [] s[2] = "tke" -> HalfSqrt(AAdd(src[s[3]], src[s[4]]))
                 IN Assign((s[1] :> new) @@ dvars, means, perts, steps, k + 1)

\* a variant of Attrs that records the smoothing parameters in every mode
Attrs_always(attrs, mean_opt, lowess_delta) ==
    ("WINDOW_SIZE" :> win_size) @@ ("LOWESS_DELTA" :> lowess_delta)
        @@ ("MEAN_OPT" :> mean_opt) @@ attrs

\* lines 399-402: the attributes the call records on ds
Attrs(attrs, mean_opt, lowess_delta) ==
    LET a1 == ("MEAN_OPT" :> mean_opt) @@ attrs
    IN IF mean_opt = "lowess"
       THEN ("WINDOW_SIZE" :> win_size) @@ ("LOWESS_DELTA" :> lowess_delta) @@ a1
       ELSE a1

\* lines 377-403: the perturbations, the assignments onto ds, the attributes
Augment(d, means, data_type, mean_opt, lowess_delta) ==
    LET perts == DsSub(d.vars, means)
        done  == Assign(d.vars, means, perts, Assignments(data_type), 1)
        d1    == [d EXCEPT !.vars = done.vars]
    IN IF done.exc # "none" THEN Raise(d1, done.exc)
       ELSE [ds  |-> [d1 EXCEPT !.attrs = Attrs(d.attrs, mean_opt, lowess_delta)],
             ret |-> [status |-> "ok", exc |-> "none", ref |-> "ds"]]

\* a variant of UnsupportedMeanOpt that lacks the return and runs into
\* ds_perts = ds-ds_means with ds_means unbound
UnsupportedMeanOpt_noReturn(d) == Raise(d, "UnboundLocalError")

\* lines 374-376: print('Please select "static" or "lowess"'); return
UnsupportedMeanOpt(d) ==
    [ds |-> d, ret |-> [status |-> "ok", exc |-> "none", ref |-> "None"]]

\* frac_checked is not an argument of the function: it tells which
\* statsmodels the call runs with (see LowessExc)
model4D_calcQOIs(d, mean_dim, data_type, mean_opt, lowess_delta, frac_checked) ==
    LET var_keys == IF data_type = "ts" THEN TsVarKeys ELSE InOrder(DOMAIN d.vars)
    IN IF mean_opt = "static" THEN
           IF mean_dim \notin DOMAIN d.dims THEN Raise(d, "ValueError")
           ELSE Augment(d, DsMean(d, mean_dim), data_type, mean_opt, lowess_delta)
       ELSE IF mean_opt = "lowess" THEN
           IF mean_dim \notin DOMAIN d.dims THEN Raise(d, "KeyError")
           ELSE LET sm == LowessMeans(d, var_keys, 1, << >>,
                                      d.dims[mean_dim], lowess_delta, frac_checked)
                IN IF sm.exc # "none" THEN Raise(d, sm.exc)
                   ELSE Augment(d, sm.means, data_type, mean_opt, lowess_delta)
       ELSE UnsupportedMeanOpt(d)

----------------------------------------------------------------------------
(* The calls on a freshly loaded dataset. *)

MeanDims == DimNames \cup {"time"}
DataTypes == {"wrfout", "ts"}
MeanOpts == {"static", "lowess", "rolling"}
Deltas == {0, 1}

InitQOI ==
    /\ ds \in RawDatasets
    /\ old = ds
    /\ call = [op |-> "load"]
    /\ ret = [status |-> "none", exc |-> "none", ref |-> "none"]

CalcQOIs ==
    /\ call.op = "load"
    /\ \E mean_dim \in MeanDims, data_type \in DataTypes,
          mean_opt \in MeanOpts, lowess_delta \in Deltas, frac_checked \in BOOLEAN :
          LET r == model4D_calcQOIs(ds, mean_dim, data_type, mean_opt, lowess_delta,
                                    frac_checked)
          IN /\ ds' = r.ds
             /\ old' = ds
             /\ call' = [op |-> "model4D_calcQOIs", mean_dim |-> mean_dim,
                         data_type |-> data_type, mean_opt |-> mean_opt,
                         lowess_delta |-> lowess_delta,
                         frac_checked |-> frac_checked]
             /\ ret' = r.ret

NextQOI == CalcQOIs

SpecQOI == InitQOI /\ [][NextQOI]_vars

----------------------------------------------------------------------------
(* Helpers of the spectral estimators. *)

Min(a, b) == IF a < b THEN a ELSE b

\* the letters of a dimension name: Python's  'y' in spectra_dim
Letters(name) ==
    CASE name = "datetime" -> {"d", "a", "t", "e", "i", "m"}
      [] name = "nz" -> {"n", "z"}
      [] name = "ny" -> {"n", "y"}
      [] name = "nx" -> {"n", "x"}
      [] name = "y" -> {"y"}
      [] name = "time" -> {"t", "i", "m", "e"}

Contains(name, ch) == ch \in Letters(name)

\* what isel(**fixes) raises on an array with dimensions adims
IselExc(adims, fixes, sz) ==
    IF \E d \in DOMAIN fixes : d \notin adims THEN "ValueError"
    ELSE IF \E d \in DOMAIN fixes : fixes[d] \notin 0 .. sz[d] - 1 THEN "IndexError"
    ELSE "none"

\* the index with the coordinates of fixes, and j along dimension r
IdxOf(fixes, r, j) ==
    LET f == (r :> j) @@ fixes
    IN <<f["datetime"], f["nz"], f["ny"], f["nx"]>>

\* the 1-D series fld - fldMean along r, the other coordinates fixed
Series(fldA, meanA, fixes, r, sz) ==
    [j \in 1 .. sz[r] |->
        RSub(fldA.val[IdxOf(fixes, r, j - 1)], meanA.val[IdxOf(fixes, r, j - 1)])]

\* np.fft.fftfreq(n, 1/fs), as scipy.signal.welch returns it two-sided
FftFreq(n, fs) ==
    [k \in 1 .. n |->
        LET b == IF k - 1 <= (n - 1) \div 2 THEN k - 1 ELSE k - 1 - n
        IN Norm(b * fs[1], n * fs[2])]

\* scipy.signal.welch(series, fs, window=hamming(nblock, True), noverlap=0,
\* nfft=nblock, return_onesided=False, detrend='constant'): the two-sided
\* periodogram, real valued, one uninterpreted value per frequency bin
Welch(series, fs, nblock) ==
    IF nblock > Len(series)
    THEN [exc |-> "ValueError", f |-> << >>, Pxxfc |-> << >>]
    ELSE [exc |-> "none", f |-> FftFreq(nblock, fs),
          Pxxfc |-> [k \in 1 .. nblock |-> <<"welch", series, fs, nblock, k>>]]

\* np.real and np.conj of a real-valued periodogram
Real(P) == P
Conj(P) == P

\* np.multiply(a, b), elementwise: each product is kept as the ordered pair
\* of its factors, a sum of products as the bag of its terms
Multiply(a, b) == [k \in 1 .. Len(a) |-> SetToBag({<<a[k], b[k]>>})]

Plus(a, b) == [k \in 1 .. Len(a) |-> a[k] (+) b[k]]

Zeros(n) == [k \in 1 .. n |-> EmptyBag]

\* Python's  it is 0  on an int of range(): CPython's small-int cache
Is0(it) == it = 0

\* a variant of Unresolved in which dt has a default of 1
Unresolved_default(d, spectra_dim) ==
    [exc |-> "none", nblock |-> d.dims[spectra_dim], fs |-> <<1, 1>>]

\* fs = 1 / dt when no branch has assigned dt
Unresolved(d, spectra_dim) == [exc |-> "UnboundLocalError"]

\* lines 434-442: nblock and the sample rate
SampleRate(d, spectra_dim, temporal) ==
    IF spectra_dim \notin DOMAIN d.dims THEN [exc |-> "KeyError"]
    ELSE IF Contains(spectra_dim, "y") THEN
        IF "DY" \notin DOMAIN d.attrs THEN [exc |-> "KeyError"]
        ELSE [exc |-> "none", nblock |-> d.dims[spectra_dim],
              fs |-> <<d.attrs["DY"][2], d.attrs["DY"][1]>>]
    ELSE IF Contains(spectra_dim, "x") THEN
        IF "DX" \notin DOMAIN d.attrs THEN [exc |-> "KeyError"]
        ELSE [exc |-> "none", nblock |-> d.dims[spectra_dim],
              fs |-> <<d.attrs["DX"][2], d.attrs["DX"][1]>>]
    ELSE IF temporal /\ spectra_dim = "datetime" THEN
        IF d.dims["datetime"] < 2 THEN [exc |-> "IndexError"]
        ELSE LET dt == Norm(d.coords.datetime[1] - d.coords.datetime[0], 1000000000)
             IN IF dt[1] = 0 THEN [exc |-> "ZeroDivisionError"]
                ELSE [exc |-> "none", nblock |-> d.dims[spectra_dim],
                      fs |-> <<dt[2], dt[1]>>]
    ELSE Unresolved(d, spectra_dim)

\* the outcome of a call that raised, after welch periodograms were computed
Failed(exc, welch) ==
    [status |-> "error", exc |-> exc, ref |-> "none", welch |-> welch]

\* the local variables of a running estimator: the accumulator Puuf_cum,
\* the names bound so far, the error raised, the periodograms computed
Locals(nl, nc, nblock) ==
    [cum    |-> [s \in (0 .. nl - 1) \X (0 .. nc - 1) |-> Zeros(nblock)],
     bound  |-> {},
     cnt    |-> 0,
     cnt_lvl |-> 0,
     cnt_i  |-> 0,
     f      |-> << >>,
     series |-> << >>,
     series1 |-> << >>,
     exc    |-> "none",
     welch  |-> 0]

Abort(st, exc) == [st EXCEPT !.exc = exc]

\* the last lines of an estimator: 2.0*(1.0/cnt)*Puuf_cum[:,:,:half], f[:half]
Scale(st, half) ==
    IF st.exc # "none" THEN Failed(st.exc, st.welch)
    ELSE IF "cnt" \notin st.bound THEN Failed("UnboundLocalError", st.welch)
    ELSE IF st.cnt = 0 THEN Failed("ZeroDivisionError", st.welch)
    ELSE IF "f" \notin st.bound THEN Failed("UnboundLocalError", st.welch)
    ELSE [status |-> "ok", exc |-> "none", ref |-> "new", welch |-> st.welch,
          f    |-> SubSeq(st.f, 1, Min(half, Len(st.f))),
          Puuf |-> [s \in DOMAIN st.cum |->
                      [k \in 1 .. Min(half, Len(st.cum[s])) |->
                          [coef |-> Norm(2, st.cnt), sum |-> st.cum[s][k]]]]]

\* ds[fld].isel(nz=level) - ds[fldMean].isel(nz=level)
LevelSlice(d, fld, fldMean, level) ==
    LET fx == "nz" :> level
    IN IF fld \notin DOMAIN d.vars THEN [exc |-> "KeyError"]
       ELSE IF IselExc(d.vars[fld].dims, fx, d.dims) # "none"
            THEN [exc |-> IselExc(d.vars[fld].dims, fx, d.dims)]
       ELSE IF fldMean \notin DOMAIN d.vars THEN [exc |-> "KeyError"]
       ELSE IF IselExc(d.vars[fldMean].dims, fx, d.dims) # "none"
            THEN [exc |-> IselExc(d.vars[fldMean].dims, fx, d.dims)]
       ELSE [exc |-> "none", fldA |-> d.vars[fld], meanA |-> d.vars[fldMean],
             dims |-> (d.vars[fld].dims \cup d.vars[fldMean].dims) \ {"nz"},
             fixes |-> fx]

\* series_lvl.isel(**fixes): the 1-D series that is left
SelectSeries(sl, fixes, sz) ==
    LET rest == sl.dims \ DOMAIN fixes
    IN IF IselExc(sl.dims, fixes, sz) # "none"
       THEN [exc |-> IselExc(sl.dims, fixes, sz)]
       ELSE IF Cardinality(rest) # 1 THEN [exc |-> "ValueError"]
       ELSE [exc |-> "none",
             series |-> Series(sl.fldA, sl.meanA, fixes @@ sl.fixes,
                               CHOOSE r \in rest : TRUE, sz)]

----------------------------------------------------------------------------
(* model4D_spectra *)

\* lines 453-466: one pass of the loop over the averaging dimension
SpectraPass(st, a, sl, cnt_lvl, cnt_i, iLoc, it) ==
    LET sel == IF a.spectra_dim = "datetime"
               THEN SelectSeries(sl, ("nx" :> iLoc) @@ ("ny" :> it), a.d.dims)
               ELSE IF Contains(a.spectra_dim, "y")
               THEN SelectSeries(sl, ("nx" :> iLoc) @@ ("datetime" :> it), a.d.dims)
               ELSE [exc |-> "stale"]
        st1 == [st EXCEPT !.cnt = it, !.bound = @ \cup {"cnt"}]
    IN IF sel.exc \notin {"none", "stale"} THEN Abort(st1, sel.exc)
       ELSE LET st2 == IF sel.exc = "none"
                       THEN [st1 EXCEPT !.series = sel.series,
                                        !.bound = @ \cup {"series"}]
                       ELSE st1
            IN IF "series" \notin st2.bound THEN Abort(st2, "UnboundLocalError")
               ELSE LET w == Welch(st2.series, a.fs, a.nblock)
                        Pxxf == Multiply(Real(w.Pxxfc), Conj(w.Pxxfc))
                        s == <<cnt_lvl, cnt_i>>
                    IN IF w.exc # "none" THEN Abort(st2, w.exc)
                       ELSE [st2 EXCEPT
                               !.f = w.f, !.bound = @ \cup {"f"},
                               !.welch = @ + 1,
                               !.cum[s] = IF Is0(it) THEN Pxxf ELSE Plus(@, Pxxf)]

RECURSIVE SpectraAvgLoop(_, _, _, _, _, _, _)
SpectraAvgLoop(st, a, sl, cnt_lvl, cnt_i, iLoc, it) ==
    IF st.exc # "none" \/ it >= a.d.dims[a.average_dim] THEN st
    ELSE SpectraAvgLoop(SpectraPass(st, a, sl, cnt_lvl, cnt_i, iLoc, it),
                        a, sl, cnt_lvl, cnt_i, iLoc, it + 1)

RECURSIVE SpectraLocLoop(_, _, _, _, _)
SpectraLocLoop(st, a, sl, cnt_lvl, cnt_i) ==
    IF st.exc # "none" \/ cnt_i >= Len(a.horizontal_locs) THEN st
    ELSE SpectraLocLoop(
            SpectraAvgLoop(st, a, sl, cnt_lvl, cnt_i, a.horizontal_locs[cnt_i + 1], 0),
            a, sl, cnt_lvl, cnt_i + 1)

RECURSIVE SpectraLvlLoop(_, _, _)
SpectraLvlLoop(st, a, cnt_lvl) ==
    IF st.exc # "none" \/ cnt_lvl >= Len(a.vert_levels) THEN st
    ELSE LET sl == LevelSlice(a.d, a.fld, a.fldMean, a.vert_levels[cnt_lvl + 1])
         IN IF sl.exc # "none" THEN Abort(st, sl.exc)
            ELSE SpectraLvlLoop(SpectraLocLoop(st, a, sl, cnt_lvl, 0), a, cnt_lvl + 1)

model4D_spectra(d, spectra_dim, average_dim, vert_levels, horizontal_locs, fld, fldMean) ==
    LET sr == SampleRate(d, spectra_dim, TRUE)
    IN IF average_dim \notin DOMAIN d.dims THEN Failed("KeyError", 0)
       ELSE IF sr.exc # "none" THEN Failed(sr.exc, 0)
       ELSE LET a == [d |-> d, spectra_dim |-> spectra_dim, average_dim |-> average_dim,
                      vert_levels |-> vert_levels, horizontal_locs |-> horizontal_locs,
                      fld |-> fld, fldMean |-> fldMean,
                      nblock |-> sr.nblock, fs |-> sr.fs]
                st == SpectraLvlLoop(
                        Locals(Len(vert_levels), Len(horizontal_locs), sr.nblock), a, 0)
            IN Scale(st, d.dims[spectra_dim] \div 2)

----------------------------------------------------------------------------
(* model4D_spatial_spectra *)

\* ds[fld].isel(**fixes) - ds[fldMean].isel(**fixes): the 1-D series left
SpatialSeries(d, fld, fldMean, fixes) ==
    IF fld \notin DOMAIN d.vars THEN [exc |-> "KeyError"]
    ELSE IF IselExc(d.vars[fld].dims, fixes, d.dims) # "none"
         THEN [exc |-> IselExc(d.vars[fld].dims, fixes, d.dims)]
    ELSE IF fldMean \notin DOMAIN d.vars THEN [exc |-> "KeyError"]
    ELSE IF IselExc(d.vars[fldMean].dims, fixes, d.dims) # "none"
         THEN [exc |-> IselExc(d.vars[fldMean].dims, fixes, d.dims)]
    ELSE LET rest == (d.vars[fld].dims \cup d.vars[fldMean].dims) \ DOMAIN fixes
         IN IF Cardinality(rest) # 1 THEN [exc |-> "ValueError"]
            ELSE [exc |-> "none",
                  series |-> Series(d.vars[fld], d.vars[fldMean], fixes,
                                    CHOOSE r \in rest : TRUE, d.dims)]

\* lines 514-522: one pass of the loop over horizontal_locs; cnt_i is a
\* local of the function and moves on only in the else branch
SpatialSpectraPass(st, a, it, level, iLoc) ==
    LET sel == SpatialSeries(a.d, a.fld, a.fldMean,
                   ("datetime" :> it) @@ ("nz" :> level) @@ ("nx" :> iLoc))
    IN IF sel.exc # "none" THEN Abort(st, sel.exc)
       ELSE LET w == Welch(sel.series, a.fs, a.nblock)
                Pxxf == Multiply(Real(w.Pxxfc), Conj(w.Pxxfc))
                s == <<st.cnt_lvl, st.cnt_i>>
            IN IF w.exc # "none" THEN Abort(st, w.exc)
               ELSE IF Is0(it)
               THEN [st EXCEPT !.f = w.f, !.bound = @ \cup {"f"}, !.welch = @ + 1,
                               !.cum[s] = Pxxf]
               ELSE [st EXCEPT !.f = w.f, !.bound = @ \cup {"f"}, !.welch = @ + 1,
                               !.cum[s] = Plus(@, Pxxf),
                               !.cnt_i = @ + 1]

RECURSIVE SpatialSpectraLocLoop(_, _, _, _, _)
SpatialSpectraLocLoop(st, a, it, level, i) ==
    IF st.exc # "none" \/ i > Len(a.horizontal_locs) THEN st
    ELSE SpatialSpectraLocLoop(
            SpatialSpectraPass(st, a, it, level, a.horizontal_locs[i]),
            a, it, level, i + 1)

RECURSIVE SpatialSpectraLvlLoop(_, _, _, _)
SpatialSpectraLvlLoop(st, a, it, l) ==
    IF st.exc # "none" \/ l > Len(a.vert_levels) THEN st
    ELSE LET st1 == SpatialSpectraLocLoop([st EXCEPT !.cnt_i = 0], a, it,
                                          a.vert_levels[l], 1)
         IN SpatialSpectraLvlLoop(
                IF st1.exc # "none" THEN st1 ELSE [st1 EXCEPT !.cnt_lvl = @ + 1],
                a, it, l + 1)

RECURSIVE SpatialSpectraTimeLoop(_, _, _)
SpatialSpectraTimeLoop(st, a, it) ==
    IF st.exc # "none" \/ it >= a.d.dims["datetime"] THEN st
    ELSE LET st1 == SpatialSpectraLvlLoop([st EXCEPT !.cnt_lvl = 0], a, it, 1)
         IN SpatialSpectraTimeLoop(
                IF st1.exc # "none" THEN st1 ELSE [st1 EXCEPT !.cnt = @ + 1],
                a, it + 1)

model4D_spatial_spectra(d, spectra_dim, vert_levels, horizontal_locs, fld, fldMean) ==
    LET sr == SampleRate(d, spectra_dim, FALSE)
    IN IF sr.exc # "none" THEN Failed(sr.exc, 0)
       ELSE LET a == [d |-> d, spectra_dim |-> spectra_dim,
                      vert_levels |-> vert_levels, horizontal_locs |-> horizontal_locs,
                      fld |-> fld, fldMean |-> fldMean,
                      nblock |-> sr.nblock, fs |-> sr.fs]
                st0 == [Locals(Len(vert_levels), Len(horizontal_locs), sr.nblock)
                           EXCEPT !.bound = {"cnt"}]
            IN Scale(SpatialSpectraTimeLoop(st0, a, 0), d.dims["ny"] \div 2)

----------------------------------------------------------------------------
(* model4D_cospectra *)

\* a variant of CoPower whose second product takes Pxxfc1 twice
CoPower_typo(Pxxfc0, Pxxfc1) ==
    Plus(Multiply(Real(Pxxfc0), Conj(Pxxfc1)), Multiply(Real(Pxxfc1), Conj(Pxxfc1)))

\* lines 596-597 and 658:
\* np.multiply(np.real(Pxxfc0),np.conj(Pxxfc1))+np.multiply(np.real(Pxxfc1),np.conj(Pxxfc0))
CoPower(Pxxfc0, Pxxfc1) ==
    Plus(Multiply(Real(Pxxfc0), Conj(Pxxfc1)), Multiply(Real(Pxxfc1), Conj(Pxxfc0)))

\* lines 584-601: one pass of the loop over the averaging dimension
CospectraPass(st, a, sl0, sl1, cnt_lvl, cnt_i, iLoc, it) ==
    LET fixes == IF a.spectra_dim = "datetime"
                 THEN ("nx" :> iLoc) @@ ("ny" :> it)
                 ELSE ("nx" :> iLoc) @@ ("datetime" :> it)
        selects == a.spectra_dim = "datetime" \/ a.spectra_dim = "y"
        sel0 == IF selects THEN SelectSeries(sl0, fixes, a.d.dims) ELSE [exc |-> "stale"]
        sel1 == IF selects THEN SelectSeries(sl1, fixes, a.d.dims) ELSE [exc |-> "stale"]
        st1 == [st EXCEPT !.cnt = it, !.bound = @ \cup {"cnt"}]
    IN IF sel0.exc \notin {"none", "stale"} THEN Abort(st1, sel0.exc)
       ELSE IF sel1.exc \notin {"none", "stale"} THEN Abort(st1, sel1.exc)
       ELSE LET st2 == IF selects
                       THEN [st1 EXCEPT !.series = sel0.series, !.series1 = sel1.series,
                                        !.bound = @ \cup {"series", "series1"}]
                       ELSE st1
            IN IF "series" \notin st2.bound THEN Abort(st2, "UnboundLocalError")
               ELSE LET w0 == Welch(st2.series, a.fs, a.nblock)
                        w1 == Welch(st2.series1, a.fs, a.nblock)
                        Pxxf == CoPower(w0.Pxxfc, w1.Pxxfc)
                        s == <<cnt_lvl, cnt_i>>
                    IN IF w0.exc # "none" THEN Abort(st2, w0.exc)
                       ELSE IF w1.exc # "none"
                       THEN Abort([st2 EXCEPT !.welch = @ + 1], w1.exc)
                       ELSE [st2 EXCEPT
                               !.f = w1.f, !.bound = @ \cup {"f"},
                               !.welch = @ + 2,
                               !.cum[s] = IF Is0(it) THEN Pxxf ELSE Plus(@, Pxxf)]

RECURSIVE CospectraAvgLoop(_, _, _, _, _, _, _, _)
CospectraAvgLoop(st, a, sl0, sl1, cnt_lvl, cnt_i, iLoc, it) ==
    IF st.exc # "none" \/ it >= a.d.dims[a.average_dim] THEN st
    ELSE CospectraAvgLoop(CospectraPass(st, a, sl0, sl1, cnt_lvl, cnt_i, iLoc, it),
                          a, sl0, sl1, cnt_lvl, cnt_i, iLoc, it + 1)

RECURSIVE CospectraLocLoop(_, _, _, _, _, _)
CospectraLocLoop(st, a, sl0, sl1, cnt_lvl, cnt_i) ==
    IF st.exc # "none" \/ cnt_i >= Len(a.horizontal_locs) THEN st
    ELSE CospectraLocLoop(
            CospectraAvgLoop(st, a, sl0, sl1, cnt_lvl, cnt_i,
                             a.horizontal_locs[cnt_i + 1], 0),
            a, sl0, sl1, cnt_lvl, cnt_i + 1)

RECURSIVE CospectraLvlLoop(_, _, _)
CospectraLvlLoop(st, a, cnt_lvl) ==
    IF st.exc # "none" \/ cnt_lvl >= Len(a.vert_levels) THEN st
    ELSE LET sl0 == LevelSlice(a.d, a.fldv0, a.fldv0Mean, a.vert_levels[cnt_lvl + 1])
             sl1 == LevelSlice(a.d, a.fldv1, a.fldv1Mean, a.vert_levels[cnt_lvl + 1])
         IN IF sl0.exc # "none" THEN Abort(st, sl0.exc)
            ELSE IF sl1.exc # "none" THEN Abort(st, sl1.exc)
            ELSE CospectraLvlLoop(CospectraLocLoop(st, a, sl0, sl1, cnt_lvl, 0),
                                  a, cnt_lvl + 1)

model4D_cospectra(d, spectra_dim, average_dim, vert_levels, horizontal_locs, fldv0, fldv0Mean, fldv1, fldv1Mean) ==
    LET sr == SampleRate(d, spectra_dim, TRUE)
    IN IF average_dim \notin DOMAIN d.dims THEN Failed("KeyError", 0)
       ELSE IF sr.exc # "none" THEN Failed(sr.exc, 0)
       ELSE LET a == [d |-> d, spectra_dim |-> spectra_dim, average_dim |-> average_dim,
                      vert_levels |-> vert_levels, horizontal_locs |-> horizontal_locs,
                      fldv0 |-> fldv0, fldv0Mean |-> fldv0Mean,
                      fldv1 |-> fldv1, fldv1Mean |-> fldv1Mean,
                      nblock |-> sr.nblock, fs |-> sr.fs]
                st == CospectraLvlLoop(
                        Locals(Len(vert_levels), Len(horizontal_locs), sr.nblock), a, 0)
            IN Scale(st, d.dims["ny"] \div 2)

----------------------------------------------------------------------------
(* model4D_spatial_cospectra *)

\* lines 653-663: one pass of the loop over horizontal_locs
SpatialCospectraPass(st, a, it, level, iLoc) ==
    LET fixes == ("datetime" :> it) @@ ("nz" :> level) @@ ("nx" :> iLoc)
        sel0 == SpatialSeries(a.d, a.fldv0, a.fldv0Mean, fixes)
        sel1 == SpatialSeries(a.d, a.fldv1, a.fldv1Mean, fixes)
    IN IF sel0.exc # "none" THEN Abort(st, sel0.exc)
       ELSE LET w0 == Welch(sel0.series, a.fs, a.nblock)
            IN IF w0.exc # "none" THEN Abort(st, w0.exc)
               ELSE IF sel1.exc # "none"
               THEN Abort([st EXCEPT !.welch = @ + 1], sel1.exc)
               ELSE LET w1 == Welch(sel1.series, a.fs, a.nblock)
                        Pxxf == CoPower(w0.Pxxfc, w1.Pxxfc)
                        s == <<st.cnt_lvl, st.cnt_i>>
                    IN IF w1.exc # "none"
                       THEN Abort([st EXCEPT !.welch = @ + 1], w1.exc)
                       ELSE IF Is0(it)
                       THEN [st EXCEPT !.f = w1.f, !.bound = @ \cup {"f"},
                                       !.welch = @ + 2, !.cum[s] = Pxxf]
                       ELSE [st EXCEPT !.f = w1.f, !.bound = @ \cup {"f"},
                                       !.welch = @ + 2, !.cum[s] = Plus(@, Pxxf),
                                       !.cnt_i = @ + 1]

RECURSIVE SpatialCospectraLocLoop(_, _, _, _, _)
SpatialCospectraLocLoop(st, a, it, level, i) ==
    IF st.exc # "none" \/ i > Len(a.horizontal_locs) THEN st
    ELSE SpatialCospectraLocLoop(
            SpatialCospectraPass(st, a, it, level, a.horizontal_locs[i]),
            a, it, level, i + 1)

RECURSIVE SpatialCospectraLvlLoop(_, _, _, _)
SpatialCospectraLvlLoop(st, a, it, l) ==
    IF st.exc # "none" \/ l > Len(a.vert_levels) THEN st
    ELSE LET st1 == SpatialCospectraLocLoop([st EXCEPT !.cnt_i = 0], a, it,
                                            a.vert_levels[l], 1)
         IN SpatialCospectraLvlLoop(
                IF st1.exc # "none" THEN st1 ELSE [st1 EXCEPT !.cnt_lvl = @ + 1],
                a, it, l + 1)

RECURSIVE SpatialCospectraTimeLoop(_, _, _)
SpatialCospectraTimeLoop(st, a, it) ==
    IF st.exc # "none" \/ it >= a.d.dims["datetime"] THEN st
    ELSE LET st1 == SpatialCospectraLvlLoop([st EXCEPT !.cnt_lvl = 0], a, it, 1)
         IN SpatialCospectraTimeLoop(
                IF st1.exc # "none" THEN st1 ELSE [st1 EXCEPT !.cnt = @ + 1],
                a, it + 1)

model4D_spatial_cospectra(d, spectra_dim, vert_levels, horizontal_locs, fldv0, fldv0Mean, fldv1, fldv1Mean) ==
    LET sr == SampleRate(d, spectra_dim, FALSE)
    IN IF sr.exc # "none" THEN Failed(sr.exc, 0)
       ELSE LET a == [d |-> d, spectra_dim |-> spectra_dim,
                      vert_levels |-> vert_levels, horizontal_locs |-> horizontal_locs,
                      fldv0 |-> fldv0, fldv0Mean |-> fldv0Mean,
                      fldv1 |-> fldv1, fldv1Mean |-> fldv1Mean,
                      nblock |-> sr.nblock, fs |-> sr.fs]
                st0 == [Locals(Len(vert_levels), Len(horizontal_locs), sr.nblock)
                           EXCEPT !.bound = {"cnt"}]
            IN Scale(SpatialCospectraTimeLoop(st0, a, 0), d.dims["ny"] \div 2)

----------------------------------------------------------------------------
(* The estimators are called on a dataset that model4D_calcQOIs has        *)
(* augmented.  They leave the dataset alone, so a run of calls reaches     *)
(* nothing that a single call does not.                                    *)

SpectraDims == DimNames \cup {"y", "time"}
AverageDims == {"datetime", "ny", "nx"}

\* the selections of indices below n: none, one, or two distinct ones
Selections(n) ==
    {<< >>} \cup {<<i>> : i \in 0 .. n - 1}
        \cup {<<p[1], p[2]>> : p \in {q \in (0 .. n - 1) \X (0 .. n - 1) : q[1] # q[2]}}

FieldPairs == {<<"u", "uMean">>, <<"w", "wMean">>}

AugmentedDatasets ==
    {model4D_calcQOIs(RawDataset(sz, 1, "none"), md, "wrfout", "static", 0, TRUE).ds :
        sz \in Shapes, md \in {"datetime", "ny"}}

InitSpectra ==
    /\ ds \in AugmentedDatasets
    /\ old = ds
    /\ call = [op |-> "load"]
    /\ ret = [status |-> "none", exc |-> "none", ref |-> "none"]

Spectra ==
    /\ call.op = "load"
    /\ \E spectra_dim \in SpectraDims, average_dim \in AverageDims,
          vert_levels \in Selections(ds.dims["nz"]),
          horizontal_locs \in Selections(ds.dims["nx"]), fp \in FieldPairs :
          /\ call' = [op |-> "model4D_spectra", spectra_dim |-> spectra_dim,
                      average_dim |-> average_dim, vert_levels |-> vert_levels,
                      horizontal_locs |-> horizontal_locs,
                      fld |-> fp[1], fldMean |-> fp[2]]
          /\ ret' = model4D_spectra(ds, spectra_dim, average_dim, vert_levels,
                                    horizontal_locs, fp[1], fp[2])
          /\ old' = ds
          /\ UNCHANGED ds

SpatialSpectra ==
    /\ call.op = "load"
    /\ \E spectra_dim \in SpectraDims,
          vert_levels \in Selections(ds.dims["nz"]),
          horizontal_locs \in Selections(ds.dims["nx"]), fp \in FieldPairs :
          /\ call' = [op |-> "model4D_spatial_spectra", spectra_dim |-> spectra_dim,
                      vert_levels |-> vert_levels,
                      horizontal_locs |-> horizontal_locs,
                      fld |-> fp[1], fldMean |-> fp[2]]
          /\ ret' = model4D_spatial_spectra(ds, spectra_dim, vert_levels,
                                            horizontal_locs, fp[1], fp[2])
          /\ old' = ds
          /\ UNCHANGED ds

Cospectra ==
    /\ call.op = "load"
    /\ \E spectra_dim \in SpectraDims, average_dim \in AverageDims,
          vert_levels \in Selections(ds.dims["nz"]),
          horizontal_locs \in Selections(ds.dims["nx"]),
          fp0 \in FieldPairs, fp1 \in FieldPairs :
          /\ call' = [op |-> "model4D_cospectra", spectra_dim |-> spectra_dim,
                      average_dim |-> average_dim, vert_levels |-> vert_levels,
                      horizontal_locs |-> horizontal_locs,
                      fldv0 |-> fp0[1], fldv0Mean |-> fp0[2],
                      fldv1 |-> fp1[1], fldv1Mean |-> fp1[2]]
          /\ ret' = model4D_cospectra(ds, spectra_dim, average_dim, vert_levels,
                                      horizontal_locs, fp0[1], fp0[2], fp1[1], fp1[2])
          /\ old' = ds
          /\ UNCHANGED ds

SpatialCospectra ==
    /\ call.op = "load"
    /\ \E spectra_dim \in SpectraDims,
          vert_levels \in Selections(ds.dims["nz"]),
          horizontal_locs \in Selections(ds.dims["nx"]),
          fp0 \in FieldPairs, fp1 \in FieldPairs :
          /\ call' = [op |-> "model4D_spatial_cospectra", spectra_dim |-> spectra_dim,
                      vert_levels |-> vert_levels,
                      horizontal_locs |-> horizontal_locs,
                      fldv0 |-> fp0[1], fldv0Mean |-> fp0[2],
                      fldv1 |-> fp1[1], fldv1Mean |-> fp1[2]]
          /\ ret' = model4D_spatial_cospectra(ds, spectra_dim, vert_levels,
                                              horizontal_locs,
                                              fp0[1], fp0[2], fp1[1], fp1[2])
          /\ old' = ds
          /\ UNCHANGED ds

NextSpectra == Spectra \/ SpatialSpectra \/ Cospectra \/ SpatialCospectra

SpecSpectra == InitSpectra /\ [][NextSpectra]_vars

----------------------------------------------------------------------------
(* Properties of the spectral estimators, checked under SpecSpectra.        *)

TemporalOps == {"model4D_spectra", "model4D_cospectra"}
SpatialOps == {"model4D_spatial_spectra", "model4D_spatial_cospectra"}
CoOps == {"model4D_cospectra", "model4D_spatial_cospectra"}
SpectralOps == TemporalOps \cup SpatialOps

\* periodogram products that one pass adds to a frequency bin
TermsPerPass == IF call.op \in CoOps THEN 2 ELSE 1

\* the pairings of spectral and averaging axis the temporal estimators are
\* written for, with at least one level and one location selected
WellFormedTemporalCall ==
    /\ call.op \in TemporalOps
    /\ call.vert_levels # << >>
    /\ call.horizontal_locs # << >>
    /\ \/ call.spectra_dim = "datetime" /\ call.average_dim = "ny"
             /\ ds.dims["datetime"] >= 2
       \/ call.op = "model4D_spectra" /\ call.spectra_dim = "ny"
             /\ call.average_dim = "datetime"

\* C1: in model4D_spectra and model4D_cospectra, for an averaging axis of
\* size N >= 2, every returned power value is 2/N times the sum of the
\* periodogram terms of all N averaging indices.
C1_DividedBySampleCount ==
    (/\ call.op \in TemporalOps
     /\ WellFormedTemporalCall
     /\ ret.status = "ok"
     /\ ds.dims[call.average_dim] >= 2)
        => \A s \in DOMAIN ret.Puuf : \A k \in DOMAIN ret.Puuf[s] :
              /\ ret.Puuf[s][k].coef = Norm(2, ds.dims[call.average_dim])
              /\ BagCardinality(ret.Puuf[s][k].sum)
                    = ds.dims[call.average_dim] * TermsPerPass

\* C2: when the averaging axis has exactly one sample, model4D_spectra and
\* model4D_cospectra complete without error and return, for each (level,
\* location), the single periodogram term scaled by 2.
C2_SingleSampleCompletes ==
    (/\ call.op \in TemporalOps
     /\ WellFormedTemporalCall
     /\ ds.dims[call.average_dim] = 1)
        => /\ ret.status = "ok"
           /\ \A s \in DOMAIN ret.Puuf : \A k \in DOMAIN ret.Puuf[s] :
                 /\ ret.Puuf[s][k].coef = <<2, 1>>
                 /\ BagCardinality(ret.Puuf[s][k].sum) = TermsPerPass

\* a < b for rationals with positive denominators
RLess(a, b) == a[1] * b[2] < b[1] * a[2]

\* C3: for each of the four spectral estimators, with nblock the size of
\* the axis named by spectra_dim, the returned frequency array and the last
\* axis of the returned power array both have exactly floor(nblock/2)
\* entries, and the frequencies are non-negative and strictly ascending
\* from 0.
C3_HalfSpectrumLength ==
    (call.op \in SpectralOps /\ ret.status = "ok")
        => /\ Len(ret.f) = ds.dims[call.spectra_dim] \div 2
           /\ \A s \in DOMAIN ret.Puuf :
                 Len(ret.Puuf[s]) = ds.dims[call.spectra_dim] \div 2
           /\ Len(ret.f) >= 1 => ret.f[1] = <<0, 1>>
           /\ \A k \in 1 .. Len(ret.f) - 1 : RLess(ret.f[k], ret.f[k + 1])

----------------------------------------------------------------------------
(* Properties of model4D_calcQOIs, checked under SpecQOI.                   *)

\* the call has returned from the 'static' branch with the dataset augmented
StaticDone ==
    /\ call.op = "model4D_calcQOIs"
    /\ call.mean_opt = "static"
    /\ ret.status = "ok"

\* the name under which the mean of each raw variable is stored
MeanName ==
    [u |-> "uMean", v |-> "vMean", w |-> "wMean", theta |-> "thetaMean",
     wspd |-> "UMean", wdir |-> "UdirMean", p |-> "pMean"]

\* the stored mean of raw variable v
StoredMean(v) == ds.vars[MeanName[v]]

\* the raw variables whose mean the call stores
MeanedVars ==
    {v \in DOMAIN old.vars : v # "p" \/ call.data_type # "ts"}

\* second moments <<name, a, b>>: the product of the perturbations of a and b
Products ==
    {<<"uu", "u", "u">>, <<"vv", "v", "v">>, <<"ww", "w", "w">>,
     <<"uv", "u", "v">>, <<"uw", "u", "w">>, <<"vw", "v", "w">>,
     <<"wth", "w", "theta">>, <<"UU", "wspd", "wspd">>}

\* C4: for mean_opt='static', for every variable and every grid cell, the
\* static mean (the arithmetic average over mean_dim, broadcast back along
\* mean_dim) plus the perturbation used to build the second moments equals
\* the original field value.
C4_MeanPlusPerturbation ==
    StaticDone =>
        LET means == DsMean(old, call.mean_dim)
            perts == DsSub(old.vars, means)
            N     == old.dims[call.mean_dim]
        IN /\ \A v \in DOMAIN old.vars : \A i \in Idx(old.dims) :
                 /\ RAdd(means[v].val[i], perts[v].val[i]) = old.vars[v].val[i]
                 /\ RMul(means[v].val[i], <<N, 1>>)
                       = SumAlong(old.vars[v].val, i, call.mean_dim, N)
           /\ \A v \in MeanedVars : StoredMean(v) = means[v]
           /\ \A m \in Products : \A i \in Idx(old.dims) :
                 ds.vars[m[1]].val[i]
                    = RMul(RSub(old.vars[m[2]].val[i], StoredMean(m[2]).val[i]),
                           RSub(old.vars[m[3]].val[i], StoredMean(m[3]).val[i]))

\* a static call over an axis with at least two samples along which u varies
C4_Witness ==
    /\ StaticDone
    /\ old.dims[call.mean_dim] >= 2
    /\ \E i \in Idx(old.dims) : ds.vars["uu"].val[i] # <<0, 1>>
    /\ \E i \in Idx(old.dims) : ds.vars["uMean"].val[i][2] # 1

Supported == {"static", "lowess"}

Derived(data_type) ==
    {"uMean", "vMean", "wMean", "thetaMean", "UMean", "UdirMean",
     "uu", "vv", "ww", "uv", "uw", "vw", "wth", "UU", "Uw", "TKE"}
        \cup (IF data_type = "ts" THEN {} ELSE {"pMean"})

\* the call has returned from the 'static' or the 'lowess' branch
AugmentDone ==
    /\ call.op = "model4D_calcQOIs"
    /\ call.mean_opt \in Supported
    /\ ret.status = "ok"

\* C7 as stated: model4D_calcQOIs does not mutate the caller's dataset;
\* after the call the object passed in has the data variables and
\* attributes it had before, and the derived means, moments and metadata
\* are carried by a new object.
C7_InputNotMutated ==
    call.op = "model4D_calcQOIs"
        => /\ ds = old
           /\ AugmentDone => ret.ref = "new"

\* C7, amended: model4D_calcQOIs augments the caller's dataset in place;
\* after a successful call the object passed in keeps its dimensions, its
\* attributes and the values of its data variables, carries in addition
\* the derived means and moments and the MEAN_OPT attribute, and is itself
\* the object returned.
C7_AugmentedInPlace ==
    AugmentDone =>
        /\ ret.ref = "ds"
        /\ ds.dims = old.dims /\ ds.coords = old.coords
        /\ \A v \in DOMAIN old.vars :
              v \in DOMAIN ds.vars /\ ds.vars[v] = old.vars[v]
        /\ DOMAIN ds.vars = DOMAIN old.vars \cup Derived(call.data_type)
        /\ \A a \in DOMAIN old.attrs :
              a \in DOMAIN ds.attrs /\ ds.attrs[a] = old.attrs[a]
        /\ "MEAN_OPT" \in DOMAIN ds.attrs
        /\ ds.attrs["MEAN_OPT"] = call.mean_opt

\* a model-grid dataset on which the call has attached pMean and TKE
C7_Witness ==
    /\ AugmentDone
    /\ call.data_type = "wrfout"
    /\ {"pMean", "TKE"} \subseteq DOMAIN ds.vars
    /\ DOMAIN old.vars = BaseVars

\* the raw variables the call needs
Required(data_type) ==
    {"u", "v", "w", "theta", "wspd", "wdir"}
        \cup (IF data_type = "ts" THEN {} ELSE {"p"})

\* C8: when model4D_calcQOIs fails because a required variable is absent,
\* no partial result is produced: none of the derived variables or
\* attributes has been attached to the dataset the caller passed in.
C8_NoPartialResult ==
    (/\ call.op = "model4D_calcQOIs"
     /\ call.mean_opt \in Supported
     /\ \E v \in Required(call.data_type) : v \notin DOMAIN old.vars)
        => /\ ret.status = "error"
           /\ DOMAIN ds.vars = DOMAIN old.vars
           /\ DOMAIN ds.attrs = DOMAIN old.attrs

----------------------------------------------------------------------------
(* Further properties of the spectral estimators, under SpecSpectra.        *)

\* spectra_dim names neither a grid spacing (no 'y', no 'x' in it) nor the
\* timestamp axis
Unresolvable(name) ==
    /\ ~Contains(name, "y")
    /\ ~Contains(name, "x")
    /\ name # "datetime"

\* C6: when spectra_dim is neither a name resolvable to a grid-spacing
\* attribute (DX/DY) nor the timestamp axis 'datetime', each spectral
\* function fails before any periodogram is computed or accumulated.
C6_UnresolvableAxisFails ==
    (call.op \in SpectralOps /\ Unresolvable(call.spectra_dim))
        => /\ ret.status = "error"
           /\ ret.exc \in {"KeyError", "UnboundLocalError"}
           /\ ret.welch = 0

\* a spatial estimator asked for spectra along the vertical axis, with a
\* level and a location selected
C6_Witness ==
    /\ call.op \in SpatialOps
    /\ call.spectra_dim = "nz"
    /\ Len(call.vert_levels) = 2
    /\ Len(call.horizontal_locs) = 2
    /\ ds.dims["datetime"] >= 2
    /\ ret.exc = "UnboundLocalError"

\* the estimator of the call, run for one level and one location only
SingleCall(level, iLoc) ==
    CASE call.op = "model4D_spectra" ->
            model4D_spectra(ds, call.spectra_dim, call.average_dim,
                            <<level>>, <<iLoc>>, call.fld, call.fldMean)
      [] call.op = "model4D_spatial_spectra" ->
            model4D_spatial_spectra(ds, call.spectra_dim,
                                    <<level>>, <<iLoc>>, call.fld, call.fldMean)
      [] call.op = "model4D_cospectra" ->
            model4D_cospectra(ds, call.spectra_dim, call.average_dim,
                              <<level>>, <<iLoc>>, call.fldv0, call.fldv0Mean,
                              call.fldv1, call.fldv1Mean)
      [] call.op = "model4D_spatial_cospectra" ->
            model4D_spatial_cospectra(ds, call.spectra_dim,
                                      <<level>>, <<iLoc>>, call.fldv0,
                                      call.fldv0Mean, call.fldv1, call.fldv1Mean)

\* C9: the output entries of a (level, location) pair depend only on that
\* pair's data: they are what the estimator returns when the pair is the
\* only one selected, whichever other levels and locations are in
\* vert_levels and horizontal_locs and in whatever order.
C9_IndependentOfSelection ==
    (call.op \in SpectralOps /\ ret.status = "ok")
        => \A cl \in 1 .. Len(call.vert_levels) :
             \A ci \in 1 .. Len(call.horizontal_locs) :
                LET one == SingleCall(call.vert_levels[cl], call.horizontal_locs[ci])
                IN /\ one.status = "ok"
                   /\ one.Puuf[<<0, 0>>] = ret.Puuf[<<cl - 1, ci - 1>>]

\* the cospectral estimator of the call, run with its two fields swapped
Swapped ==
    IF call.op = "model4D_cospectra"
    THEN model4D_cospectra(ds, call.spectra_dim, call.average_dim,
                           call.vert_levels, call.horizontal_locs,
                           call.fldv1, call.fldv1Mean, call.fldv0, call.fldv0Mean)
    ELSE model4D_spatial_cospectra(ds, call.spectra_dim,
                                   call.vert_levels, call.horizontal_locs,
                                   call.fldv1, call.fldv1Mean,
                                   call.fldv0, call.fldv0Mean)

\* C10: model4D_cospectra and model4D_spatial_cospectra are commutative in
\* their two fields: swapping (fldv0, fldv0Mean) with (fldv1, fldv1Mean)
\* yields the same outcome, the same frequency axis and the same power
\* array.
C10_CospectraCommute ==
    call.op \in CoOps
        => /\ Swapped.status = ret.status
           /\ ret.status = "ok" => Swapped.f = ret.f /\ Swapped.Puuf = ret.Puuf

\* a cospectrum of two different fields, some bin of which holds the
\* product of two different periodograms
C10_Witness ==
    /\ call.op \in CoOps
    /\ call.fldv0 # call.fldv1
    /\ ret.status = "ok"
    /\ \E s \in DOMAIN ret.Puuf : \E k \in DOMAIN ret.Puuf[s] :
          \E e \in BagToSet(ret.Puuf[s][k].sum) : e[1] # e[2]

----------------------------------------------------------------------------
(* model4D_pdfs *)

\* a <= b for rationals with positive denominators
RLe(a, b) == a[1] * b[2] <= b[1] * a[2]

\* line 703: np.ndarray.flatten((ds[fld].isel(nz=level,nx=iLoc)
\*                              - ds[fldMean].isel(nz=level,nx=iLoc)).values),
\* datetime the slow axis and ny the fast one
Dist(d, fld, fldMean, level, iLoc) ==
    LET fx == ("nz" :> level) @@ ("nx" :> iLoc)
    IN IF fld \notin DOMAIN d.vars THEN [exc |-> "KeyError"]
       ELSE IF IselExc(d.vars[fld].dims, fx, d.dims) # "none"
            THEN [exc |-> IselExc(d.vars[fld].dims, fx, d.dims)]
       ELSE IF fldMean \notin DOMAIN d.vars THEN [exc |-> "KeyError"]
       ELSE IF IselExc(d.vars[fldMean].dims, fx, d.dims) # "none"
            THEN [exc |-> IselExc(d.vars[fldMean].dims, fx, d.dims)]
       ELSE LET rest == (d.vars[fld].dims \cup d.vars[fldMean].dims) \ DOMAIN fx
                nt == IF "datetime" \in rest THEN d.dims["datetime"] ELSE 1
                ny == IF "ny" \in rest THEN d.dims["ny"] ELSE 1
            IN [exc  |-> "none",
                dist |-> [n \in 1 .. nt * ny |->
                            LET i == <<(n - 1) \div ny, level, (n - 1) % ny, iLoc>>
                            IN RSub(d.vars[fld].val[i], d.vars[fldMean].val[i])]]

\* a variant of InBin whose last bin is half-open like the others
InBin_halfOpen(x, bins, k) == RLe(bins[k], x) /\ ~RLe(bins[k + 1], x)

\* np.histogram: bin k is [bins[k], bins[k+1]), the last bin is closed
InBin(x, bins, k) ==
    /\ RLe(bins[k], x)
    /\ IF k = Len(bins) - 1 THEN RLe(x, bins[k + 1]) ELSE ~RLe(bins[k + 1], x)

\* line 706: np.histogram(dist, bins=bins_vector) with an array of edges
Histogram(dist, bins) ==
    IF \E k \in 1 .. Len(bins) - 1 : ~RLe(bins[k], bins[k + 1])
    THEN [exc |-> "ValueError"]
    ELSE [exc  |-> "none",
          hist |-> [k \in 1 .. Len(bins) - 1 |->
                      Cardinality({n \in DOMAIN dist : InBin(dist[n], bins, k)})],
          bin_edges |-> bins]

\* scipy.stats.skew and kurtosis: uninterpreted values of the samples
Skew(dist) == <<"skew", dist>>
Kurtosis(dist) == <<"kurtosis", dist>>

\* the outcome of a distribution estimator that raised
PdfFailed(exc) == [status |-> "error", exc |-> exc, ref |-> "none"]

\* lines 696-699: the arrays of zeros and the names bound before the loops
PdfLocals(nl, nc, nbins) ==
    [hist_cum |-> [s \in (0 .. nl - 1) \X (0 .. nc - 1) |-> [k \in 1 .. nbins |-> 0]],
     sk_vec   |-> [s \in (0 .. nl - 1) \X (0 .. nc - 1) |-> <<"zero">>],
     kurt_vec |-> [s \in (0 .. nl - 1) \X (0 .. nc - 1) |-> <<"zero">>],
     bin_edges |-> << >>,
     bound |-> {},
     exc   |-> "none"]

RECURSIVE PdfsLocLoop(_, _, _, _)
\* lines 702-708: the loop over horizontal_locs, from its cnt_i-th entry on
PdfsLocLoop(st, a, cnt_lvl, cnt_i) ==
    IF st.exc # "none" \/ cnt_i >= Len(a.horizontal_locs) THEN st
    ELSE LET sel == Dist(a.d, a.fld, a.fldMean, a.vert_levels[cnt_lvl + 1],
                         a.horizontal_locs[cnt_i + 1])
         IN IF sel.exc # "none" THEN [st EXCEPT !.exc = sel.exc]
            ELSE LET h == Histogram(sel.dist, a.bins_vector)
                 IN IF h.exc # "none" THEN [st EXCEPT !.exc = h.exc]
                    ELSE PdfsLocLoop(
                            [st EXCEPT !.sk_vec[<<cnt_lvl, cnt_i>>] = Skew(sel.dist),
                                       !.kurt_vec[<<cnt_lvl, cnt_i>>] = Kurtosis(sel.dist),
                                       !.hist_cum[<<cnt_lvl, cnt_i>>] = h.hist,
                                       !.bin_edges = h.bin_edges,
                                       !.bound = @ \cup {"bin_edges"}],
                            a, cnt_lvl, cnt_i + 1)

RECURSIVE PdfsLvlLoop(_, _, _)
\* lines 700-709: the loop over vert_levels, from its cnt_lvl-th entry on
PdfsLvlLoop(st, a, cnt_lvl) ==
    IF st.exc # "none" \/ cnt_lvl >= Len(a.vert_levels) THEN st
    ELSE PdfsLvlLoop(PdfsLocLoop(st, a, cnt_lvl, 0), a, cnt_lvl + 1)

\* line 730: return hist_cum, bin_edges, sk_vec, kurt_vec
PdfReturn(st) ==
    IF st.exc # "none" THEN PdfFailed(st.exc)
    ELSE IF "bin_edges" \notin st.bound THEN PdfFailed("UnboundLocalError")
    ELSE [status |-> "ok", exc |-> "none", ref |-> "new",
          hist_cum |-> st.hist_cum, bin_edges |-> st.bin_edges,
          sk_vec |-> st.sk_vec, kurt_vec |-> st.kurt_vec]

model4D_pdfs(d, pdf_dim, vert_levels, horizontal_locs, fld, fldMean, bins_vector) ==
    IF "datetime" \notin DOMAIN d.dims THEN PdfFailed("KeyError")
    ELSE LET a == [d |-> d, vert_levels |-> vert_levels,
                   horizontal_locs |-> horizontal_locs,
                   fld |-> fld, fldMean |-> fldMean, bins_vector |-> bins_vector]
         IN PdfReturn(PdfsLvlLoop(PdfLocals(Len(vert_levels), Len(horizontal_locs),
                                            Len(bins_vector) - 1), a, 0))

----------------------------------------------------------------------------
(* model4D_spatial_pdfs *)

RECURSIVE SkewLocLoop(_, _, _, _)
\* lines 763-767: the loop over horizontal_locs that fills sk_vec, kurt_vec
SkewLocLoop(st, a, cnt_lvl, cnt_i) ==
    IF st.exc # "none" \/ cnt_i >= Len(a.horizontal_locs) THEN st
    ELSE LET sel == Dist(a.d, a.fld, a.fldMean, a.vert_levels[cnt_lvl + 1],
                         a.horizontal_locs[cnt_i + 1])
         IN IF sel.exc # "none" THEN [st EXCEPT !.exc = sel.exc]
            ELSE SkewLocLoop(
                    [st EXCEPT !.sk_vec[<<cnt_lvl, cnt_i>>] = Skew(sel.dist),
                               !.kurt_vec[<<cnt_lvl, cnt_i>>] = Kurtosis(sel.dist)],
                    a, cnt_lvl, cnt_i + 1)

RECURSIVE SkewLvlLoop(_, _, _)
\* lines 761-768: the loop over vert_levels that fills sk_vec, kurt_vec
SkewLvlLoop(st, a, cnt_lvl) ==
    IF st.exc # "none" \/ cnt_lvl >= Len(a.vert_levels) THEN st
    ELSE SkewLvlLoop(SkewLocLoop(st, a, cnt_lvl, 0), a, cnt_lvl + 1)

\* line 778: y = ds[fld].isel(datetime=it,nz=level,nx=iLoc)
\*              - ds[fldMean].isel(datetime=it,nz=level,nx=iLoc)
InstantDist(d, fld, fldMean, it, level, iLoc) ==
    LET fx == ("datetime" :> it) @@ ("nz" :> level) @@ ("nx" :> iLoc)
    IN IF fld \notin DOMAIN d.vars THEN [exc |-> "KeyError"]
       ELSE IF IselExc(d.vars[fld].dims, fx, d.dims) # "none"
            THEN [exc |-> IselExc(d.vars[fld].dims, fx, d.dims)]
       ELSE IF fldMean \notin DOMAIN d.vars THEN [exc |-> "KeyError"]
       ELSE IF IselExc(d.vars[fldMean].dims, fx, d.dims) # "none"
            THEN [exc |-> IselExc(d.vars[fldMean].dims, fx, d.dims)]
       ELSE LET rest == (d.vars[fld].dims \cup d.vars[fldMean].dims) \ DOMAIN fx
                ny == IF "ny" \in rest THEN d.dims["ny"] ELSE 1
            IN [exc  |-> "none",
                dist |-> [n \in 1 .. ny |->
                            LET i == <<it, level, n - 1, iLoc>>
                            IN RSub(d.vars[fld].val[i], d.vars[fldMean].val[i])]]

\* hist_cum[cnt_lvl,cnt_i,:] + hist
HistPlus(a, b) == [k \in 1 .. Len(a) |-> a[k] + b[k]]

RECURSIVE SpatialPdfsLocLoop(_, _, _, _, _)
\* lines 777-785: the loop over horizontal_locs at time instance it
SpatialPdfsLocLoop(st, a, it, cnt_lvl, cnt_i) ==
    IF st.exc # "none" \/ cnt_i >= Len(a.horizontal_locs) THEN st
    ELSE LET sel == InstantDist(a.d, a.fld, a.fldMean, it,
                                a.vert_levels[cnt_lvl + 1],
                                a.horizontal_locs[cnt_i + 1])
         IN IF sel.exc # "none" THEN [st EXCEPT !.exc = sel.exc]
            ELSE LET h == Histogram(sel.dist, a.bins_vector)
                 IN IF h.exc # "none" THEN [st EXCEPT !.exc = h.exc]
                    ELSE SpatialPdfsLocLoop(
                            [st EXCEPT !.hist_cum[<<cnt_lvl, cnt_i>>] =
                                           IF Is0(it) THEN h.hist
                                           ELSE HistPlus(@, h.hist),
                                       !.bin_edges = h.bin_edges,
                                       !.bound = @ \cup {"bin_edges"}],
                            a, it, cnt_lvl, cnt_i + 1)

RECURSIVE SpatialPdfsLvlLoop(_, _, _, _)
\* lines 775-786: the loop over vert_levels at time instance it
SpatialPdfsLvlLoop(st, a, it, cnt_lvl) ==
    IF st.exc # "none" \/ cnt_lvl >= Len(a.vert_levels) THEN st
    ELSE SpatialPdfsLvlLoop(SpatialPdfsLocLoop(st, a, it, cnt_lvl, 0),
                            a, it, cnt_lvl + 1)

RECURSIVE SpatialPdfsTimeLoop(_, _, _)
\* lines 770-787: the loop over the time instances
SpatialPdfsTimeLoop(st, a, it) ==
    IF st.exc # "none" \/ it >= a.d.dims["datetime"] THEN st
    ELSE SpatialPdfsTimeLoop(SpatialPdfsLvlLoop(st, a, it, 0), a, it + 1)

model4D_spatial_pdfs(d, pdf_dim, vert_levels, horizontal_locs, fld, fldMean, bins_vector) ==
    IF "datetime" \notin DOMAIN d.dims THEN PdfFailed("KeyError")
    ELSE LET a == [d |-> d, vert_levels |-> vert_levels,
                   horizontal_locs |-> horizontal_locs,
                   fld |-> fld, fldMean |-> fldMean, bins_vector |-> bins_vector]
             st0 == PdfLocals(Len(vert_levels), Len(horizontal_locs),
                              Len(bins_vector) - 1)
         IN PdfReturn(SpatialPdfsTimeLoop(SkewLvlLoop(st0, a, 0), a, 0))

----------------------------------------------------------------------------
(* The distribution estimator, called once on an augmented dataset.         *)

\* the edges of the histogram bins handed in: covering every perturbation,
\* narrower than the data, with a repeated edge, and not increasing
BinsVectors ==
    {<< <<0 - MaxVal, 1>>, <<0, 1>>, <<MaxVal, 1>> >>,
     << <<-1, 2>>, <<1, 2>> >>,
     << <<-1, 1>>, <<0, 1>>, <<0, 1>>, <<1, 1>> >>,
     << <<1, 1>>, <<0, 1>>, <<2, 1>> >>}

PdfDims == {"datetime", "ny"}

PdfDatasets ==
    {model4D_calcQOIs(RawDataset(sz, seed, "none"), md, "wrfout", "static", 0, TRUE).ds :
        sz \in Shapes, seed \in Seeds, md \in {"datetime", "ny"}}

InitPdfs ==
    /\ ds \in PdfDatasets
    /\ old = ds
    /\ call = [op |-> "load"]
    /\ ret = [status |-> "none", exc |-> "none", ref |-> "none"]

Pdfs ==
    /\ call.op = "load"
    /\ \E pdf_dim \in PdfDims,
          vert_levels \in Selections(ds.dims["nz"]),
          horizontal_locs \in Selections(ds.dims["nx"]),
          fp \in FieldPairs, bins_vector \in BinsVectors :
          /\ call' = [op |-> "model4D_pdfs", pdf_dim |-> pdf_dim,
                      vert_levels |-> vert_levels,
                      horizontal_locs |-> horizontal_locs,
                      fld |-> fp[1], fldMean |-> fp[2], bins_vector |-> bins_vector]
          /\ ret' = model4D_pdfs(ds, pdf_dim, vert_levels, horizontal_locs,
                                 fp[1], fp[2], bins_vector)
          /\ old' = ds
          /\ UNCHANGED ds

SpatialPdfs ==
    /\ call.op = "load"
    /\ \E pdf_dim \in PdfDims,
          vert_levels \in Selections(ds.dims["nz"]),
          horizontal_locs \in Selections(ds.dims["nx"]),
          fp \in FieldPairs, bins_vector \in BinsVectors :
          /\ call' = [op |-> "model4D_spatial_pdfs", pdf_dim |-> pdf_dim,
                      vert_levels |-> vert_levels,
                      horizontal_locs |-> horizontal_locs,
                      fld |-> fp[1], fldMean |-> fp[2], bins_vector |-> bins_vector]
          /\ ret' = model4D_spatial_pdfs(ds, pdf_dim, vert_levels, horizontal_locs,
                                         fp[1], fp[2], bins_vector)
          /\ old' = ds
          /\ UNCHANGED ds

NextPdfs == Pdfs \/ SpatialPdfs

SpecPdfs == InitPdfs /\ [][NextPdfs]_vars

----------------------------------------------------------------------------
(* Properties of model4D_pdfs, checked under SpecPdfs.                      *)

RECURSIVE SumSeq(_, _)
\* the sum of the first n entries of a sequence of integers
SumSeq(q, n) == IF n = 0 THEN 0 ELSE SumSeq(q, n - 1) + q[n]

PdfsDone == call.op = "model4D_pdfs" /\ ret.status = "ok"

\* the perturbation of the field of the call at time t, level, y, location
Sample(t, level, y, iLoc) ==
    RSub(ds.vars[call.fld].val[<<t, level, y, iLoc>>],
         ds.vars[call.fldMean].val[<<t, level, y, iLoc>>])

\* the (time, y) positions of the samples of a (level, location) pair
Positions == (0 .. ds.dims["datetime"] - 1) \X (0 .. ds.dims["ny"] - 1)

\* the positions whose sample lies between the first and the last edge
InRange(level, iLoc) ==
    {q \in Positions :
        /\ RLe(call.bins_vector[1], Sample(q[1], level, q[2], iLoc))
        /\ RLe(Sample(q[1], level, q[2], iLoc),
               call.bins_vector[Len(call.bins_vector)])}

\* C11 as stated: in model4D_pdfs, for every (level, location) pair the
\* histogram counts summed over all bins equal the total number of
\* flattened perturbation samples (time x y) of that pair, for any samples
\* and any bin edges.
C11_CountsSumToSamples ==
    PdfsDone =>
        \A s \in DOMAIN ret.hist_cum :
            SumSeq(ret.hist_cum[s], Len(ret.hist_cum[s])) = Cardinality(Positions)

\* C11, amended: for every (level, location) pair the histogram counts
\* summed over all bins equal the number of that pair's samples that lie
\* between the first and the last bin edge, both included; the sum is the
\* total number of samples when the edges cover every sample.
C11_CountsSumToSamplesInRange ==
    PdfsDone =>
        \A cl \in 1 .. Len(call.vert_levels) :
          \A ci \in 1 .. Len(call.horizontal_locs) :
            LET hist == ret.hist_cum[<<cl - 1, ci - 1>>]
                in   == InRange(call.vert_levels[cl], call.horizontal_locs[ci])
            IN /\ Len(hist) = Len(call.bins_vector) - 1
               /\ SumSeq(hist, Len(hist)) = Cardinality(in)
               /\ in = Positions => SumSeq(hist, Len(hist)) = Cardinality(Positions)

\* a histogram of two levels in which a sample sits on the last edge and
\* another sample lies outside the edges
C11_Witness ==
    /\ PdfsDone
    /\ Len(call.vert_levels) = 2
    /\ \E ci \in 1 .. Len(call.horizontal_locs) :
          /\ InRange(call.vert_levels[2], call.horizontal_locs[ci]) # Positions
          /\ \E q \in Positions :
                Sample(q[1], call.vert_levels[2], q[2], call.horizontal_locs[ci])
                    = call.bins_vector[Len(call.bins_vector)]

----------------------------------------------------------------------------
(* covariance                                                               *)
(*                                                                          *)
(* A pandas Series is [multi |-> whether its index is a (time, height)      *)
(* MultiIndex, val |-> its values by key <<time, height>>]; a series with   *)
(* a plain datetime index has height 0 in every key.  Times are whole       *)
(* seconds since midnight and an interval is a number of seconds.  A        *)
(* DataFrame is [index, columns, dated, val]: its times, its column         *)
(* labels, whether its index is a DatetimeIndex, and its values by          *)
(* <<time, column>>.  NaN is the pair <<0, 0>>.                             *)

MaxTimes == 3

NaN == <<0, 0>>
IsNaN(x) == x[2] = 0

NSub(p, q) == IF IsNaN(p) \/ IsNaN(q) THEN NaN ELSE RSub(p, q)
NMul(p, q) == IF IsNaN(p) \/ IsNaN(q) THEN NaN ELSE RMul(p, q)

\* a Series seen as a frame of one column, or of one column per height
\* when it is taken apart by unstack()
AsFrame(s) ==
    LET index   == {k[1] : k \in DOMAIN s.val}
        columns == {k[2] : k \in DOMAIN s.val}
    IN [index |-> index, columns |-> columns, dated |-> TRUE,
        val |-> [k \in index \X columns |->
                    IF k \in DOMAIN s.val THEN s.val[k] ELSE NaN]]

\* a variant of MultiIndexCheck without the elif branch
MultiIndexCheck_noElif(a, b) ==
    IF a.multi
    THEN IF ~b.multi
         THEN [exc |-> "AssertionError", msg |-> "Both a and b should have multiindices"]
         ELSE [exc |-> "none", a |-> AsFrame(a), b |-> AsFrame(b),
               have_multiindex |-> TRUE]
    ELSE [exc |-> "none", a |-> AsFrame(a),
          b |-> [AsFrame(b) EXCEPT !.dated = ~b.multi],
          have_multiindex |-> FALSE]

\* lines 199-210: both inputs are unstacked when a has a MultiIndex
MultiIndexCheck(a, b) ==
    IF a.multi
    THEN IF ~b.multi
         THEN [exc |-> "AssertionError", msg |-> "Both a and b should have multiindices"]
         ELSE [exc |-> "none", a |-> AsFrame(a), b |-> AsFrame(b),
               have_multiindex |-> TRUE]
    ELSE IF b.multi
    THEN [exc |-> "AssertionError", msg |-> "Both a and b should have multiindices"]
    ELSE [exc |-> "none", a |-> AsFrame(a), b |-> AsFrame(b),
          have_multiindex |-> FALSE]

RECURSIVE SumOver(_, _, _)
\* the sum of column c of a frame's values over the times in T
SumOver(val, T, c) ==
    IF T = {} THEN <<0, 1>>
    ELSE LET t == CHOOSE u \in T : TRUE
         IN RAdd(val[<<t, c>>], SumOver(val, T \ {t}, c))

\* the mean of the values of column c at the times in T that are not NaN
MeanOver(val, T, c) ==
    LET valid == {t \in T : ~IsNaN(val[<<t, c>>])}
    IN IF valid = {} THEN NaN
       ELSE RDivInt(SumOver(val, valid, c), Cardinality(valid))

\* a*b: the product on the union of the two indexes and column sets
FrameMul(fa, fb) ==
    LET index   == fa.index \cup fb.index
        columns == fa.columns \cup fb.columns
    IN [index |-> index, columns |-> columns, dated |-> fa.dated /\ fb.dated,
        val |-> [k \in index \X columns |->
                    IF k \in DOMAIN fa.val /\ k \in DOMAIN fb.val
                    THEN NMul(fa.val[k], fb.val[k]) ELSE NaN]]

\* .rolling(interval).mean(): at every row the mean over the rows of the
\* last interval seconds, the row itself included (min_periods is 1)
RollingMean(f, interval) ==
    [f EXCEPT !.val = [k \in f.index \X f.columns |->
        MeanOver(f.val, {u \in f.index : k[1] - interval < u /\ u <= k[1]}, k[2])]]

Lowest(T) == CHOOSE t \in T : \A u \in T : t <= u
Highest(T) == CHOOSE t \in T : \A u \in T : u <= t

\* a variant of Bins that leaves out the intervals without a sample
Bins_nonEmpty(index, interval) ==
    {(t \div interval) * interval : t \in index}

\* the labels of the resample intervals: every multiple of the interval
\* from the one holding the first time to the one holding the last
Bins(index, interval) ==
    {n * interval : n \in (Lowest(index) \div interval) .. (Highest(index) \div interval)}

\* .resample(interval).mean(): one row per interval, NaN for an empty one
ResampleMean(f, interval) ==
    LET bins == Bins(f.index, interval)
    IN [index |-> bins, columns |-> f.columns, dated |-> f.dated,
        val |-> [k \in bins \X f.columns |->
            MeanOver(f.val, {u \in f.index : k[1] <= u /\ u < k[1] + interval}, k[2])]]

\* a variant of Cov that subtracts the square of a_mean
Cov_typo(ab_mean, a_mean, b_mean) ==
    [ab_mean EXCEPT !.val = [k \in DOMAIN ab_mean.val |->
        IF k \in DOMAIN a_mean.val /\ k \in DOMAIN b_mean.val
        THEN NSub(ab_mean.val[k], NMul(a_mean.val[k], a_mean.val[k]))
        ELSE NaN]]

\* line 225: cov = ab_mean - a_mean*b_mean
Cov(ab_mean, a_mean, b_mean) ==
    [ab_mean EXCEPT !.val = [k \in DOMAIN ab_mean.val |->
        IF k \in DOMAIN a_mean.val /\ k \in DOMAIN b_mean.val
        THEN NSub(ab_mean.val[k], NMul(a_mean.val[k], b_mean.val[k]))
        ELSE NaN]]

\* cov.stack(): back to a (time, height) MultiIndex; NaN entries are dropped
Stack(f) ==
    [multi |-> TRUE,
     val |-> [k \in {j \in DOMAIN f.val : ~IsNaN(f.val[j])} |-> f.val[k]]]

CovFailed(exc, msg) ==
    [status |-> "error", exc |-> exc, msg |-> msg, ref |-> "none"]

covariance(a, b, interval, resample) ==
    LET chk == MultiIndexCheck(a, b)
    IN IF chk.exc # "none" THEN CovFailed(chk.exc, chk.msg)
       \* lines 212-215: interval is a string, both indexes must be dated
       ELSE IF ~chk.a.dated \/ ~chk.b.dated THEN CovFailed("AssertionError", "")
       ELSE LET ab     == FrameMul(chk.a, chk.b)
                a_mean == IF resample THEN ResampleMean(chk.a, interval)
                          ELSE RollingMean(chk.a, interval)
                b_mean == IF resample THEN ResampleMean(chk.b, interval)
                          ELSE RollingMean(chk.b, interval)
                ab_mean == IF resample THEN ResampleMean(ab, interval)
                           ELSE RollingMean(ab, interval)
                cov == Cov(ab_mean, a_mean, b_mean)
            IN [status |-> "ok", exc |-> "none", msg |-> "", ref |-> "new",
                cov |-> IF chk.have_multiindex THEN Stack(cov)
                        ELSE [multi |-> FALSE, val |-> cov.val]]

----------------------------------------------------------------------------
(* covariance called once on two series taken from the same records.        *)

Heights == {1, 2}
CovSeeds == {0, 1, 2}
Intervals == {1, 2}

\* a synthetic sample: the value of a series at time t and height h
CovVal(seed, t, h) ==
    (seed * (t + 1) + t * t + h * (t + seed)) % (MaxVal + 1)

\* a series of the records K: by (time, height) when multi, else by time
MakeSeries(K, multi, seed) ==
    IF multi
    THEN [multi |-> TRUE,
          val |-> [k \in K |-> <<CovVal(seed, k[1], k[2]), 1>>]]
    ELSE [multi |-> FALSE,
          val |-> [k \in {<<j[1], 0>> : j \in K} |-> <<CovVal(seed, k[1], 0), 1>>]]

InitCov ==
    /\ \E K \in (SUBSET ((0 .. MaxTimes - 1) \X Heights)) \ {{}},
          ma \in BOOLEAN, mb \in BOOLEAN, sa \in CovSeeds, sb \in CovSeeds :
          ds = [a |-> MakeSeries(K, ma, sa), b |-> MakeSeries(K, mb, sb)]
    /\ old = ds
    /\ call = [op |-> "load"]
    /\ ret = [status |-> "none", exc |-> "none", ref |-> "none"]

Covariance ==
    /\ call.op = "load"
    /\ \E interval \in Intervals, resample \in BOOLEAN :
          /\ call' = [op |-> "covariance", interval |-> interval,
                      resample |-> resample]
          /\ ret' = covariance(ds.a, ds.b, interval, resample)
          /\ old' = ds
          /\ UNCHANGED ds

NextCov == Covariance

SpecCov == InitCov /\ [][NextCov]_vars

----------------------------------------------------------------------------
(* Properties of covariance, checked under SpecCov.                         *)

CovDone == call.op = "covariance" /\ ret.status = "ok"

RECURSIVE SumFn(_)
\* the sum of the values of a function with a finite domain
SumFn(g) ==
    IF DOMAIN g = {} THEN <<0, 1>>
    ELSE LET t == CHOOSE u \in DOMAIN g : TRUE
         IN RAdd(g[t], SumFn([u \in DOMAIN g \ {t} |-> g[u]]))

\* the arithmetic mean of the values of a function with a non-empty domain
MeanFn(g) == RDivInt(SumFn(g), Cardinality(DOMAIN g))

\* the population variance of the values of a function
VarianceFn(g) ==
    MeanFn([t \in DOMAIN g |-> RMul(RSub(g[t], MeanFn(g)), RSub(g[t], MeanFn(g)))])

\* the times of the window of the result row at time t: the last interval
\* seconds up to t when rolling, the interval that starts at t when resampling
WindowOf(t) ==
    IF call.resample THEN {u \in 0 .. MaxTimes : t <= u /\ u < t + call.interval}
    ELSE {u \in 0 .. MaxTimes : t - call.interval < u /\ u <= t}

\* the samples of a series at height h at the times of T
Samples(srs, T, h) ==
    [t \in {u \in T : <<u, h>> \in DOMAIN srs.val} |-> srs.val[<<t, h>>]]

\* C12: covariance(a, b) is mean(a*b) - mean(a)*mean(b), the three means
\* taken over the same window, so that covariance(a, a) is the population
\* variance of a over that window, with resample=False and resample=True.
C12_CovarianceOverWindow ==
    CovDone =>
        \A k \in DOMAIN ret.cov.val :
            LET sa == Samples(ds.a, WindowOf(k[1]), k[2])
                sb == Samples(ds.b, WindowOf(k[1]), k[2])
            IN IF DOMAIN sa = {} THEN IsNaN(ret.cov.val[k])
               ELSE /\ ret.cov.val[k]
                         = RSub(MeanFn([t \in DOMAIN sa |-> RMul(sa[t], sb[t])]),
                                RMul(MeanFn(sa), MeanFn(sb)))
                    /\ ds.a = ds.b => ret.cov.val[k] = VarianceFn(sa)

\* the covariance of a series with itself, a window of which holds
\* samples that differ
C12_Witness ==
    /\ CovDone
    /\ ds.a = ds.b
    /\ \E k \in DOMAIN ret.cov.val :
          ~IsNaN(ret.cov.val[k]) /\ ret.cov.val[k] # <<0, 1>>

SingleIndexed == ~ds.a.multi /\ ~ds.b.multi

\* the times of the input series
InputTimes == {k[1] : k \in DOMAIN ds.a.val}

\* C13: for single-index time series, covariance with resample=False
\* returns a series with the time index of the input, and with
\* resample=True exactly one value per resample interval, from the interval
\* of the first sample to the interval of the last.
C13_OutputLength ==
    (CovDone /\ SingleIndexed) =>
        /\ ~ret.cov.multi
        /\ ~call.resample => DOMAIN ret.cov.val = DOMAIN ds.a.val
        /\ call.resample =>
              /\ \A k \in DOMAIN ret.cov.val :
                    k[2] = 0 /\ k[1] % call.interval = 0
              /\ \A n \in 0 .. MaxTimes :
                    <<n * call.interval, 0>> \in DOMAIN ret.cov.val
                        <=> \E t1 \in InputTimes : \E t2 \in InputTimes :
                               /\ t1 \div call.interval <= n
                               /\ n <= t2 \div call.interval

\* a resampled covariance with an interval that holds no sample
C13_Witness ==
    /\ CovDone /\ SingleIndexed
    /\ call.resample
    /\ \E k \in DOMAIN ret.cov.val : IsNaN(ret.cov.val[k])
    /\ Cardinality(DOMAIN ret.cov.val) = 3

\* C14: covariance fails, and returns no result, whenever exactly one of
\* its two inputs has a (time, height) MultiIndex, whichever of a or b it
\* is; the error is the AssertionError 'Both a and b should have
\* multiindices'.
C14_MismatchFails ==
    (call.op = "covariance" /\ ds.a.multi # ds.b.multi) =>
        /\ ret.status = "error"
        /\ ret.exc = "AssertionError"
        /\ ret.msg = "Both a and b should have multiindices"
        /\ "cov" \notin DOMAIN ret

\* b alone has the MultiIndex
C14_Witness ==
    /\ call.op = "covariance"
    /\ ~ds.a.multi /\ ds.b.multi
    /\ ret.status = "error"

\* the series of height h of a multi-indexed series, indexed by time alone
LevelSeries(srs, h) ==
    [multi |-> FALSE,
     val |-> [k \in {<<j[1], 0>> : j \in {i \in DOMAIN srs.val : i[2] = h}} |->
                 srs.val[<<k[1], h>>]]]

\* the covariance of the height-h series of a and b alone
LevelCov(h) ==
    covariance(LevelSeries(ds.a, h), LevelSeries(ds.b, h),
               call.interval, call.resample).cov

\* C15: when both inputs are multi-indexed by (time, height), the result is
\* indexed by (time, height) and its value at (t, h) is the value at t of
\* the single-index covariance of the height-h series of a and b alone.
C15_PerLevel ==
    (CovDone /\ ds.a.multi /\ ds.b.multi) =>
        /\ ret.cov.multi
        /\ \A k \in DOMAIN ret.cov.val :
              /\ <<k[1], 0>> \in DOMAIN LevelCov(k[2]).val
              /\ ret.cov.val[k] = LevelCov(k[2]).val[<<k[1], 0>>]
        /\ \A h \in {k[2] : k \in DOMAIN ds.a.val} :
              \A j \in DOMAIN LevelCov(h).val :
                 ~IsNaN(LevelCov(h).val[j]) => <<j[1], h>> \in DOMAIN ret.cov.val

----------------------------------------------------------------------------
(* Further properties of model4D_calcQOIs, checked under SpecQOI.           *)

\* the call has returned from the 'lowess' branch with the dataset augmented
LowessDone ==
    /\ call.op = "model4D_calcQOIs"
    /\ call.mean_opt = "lowess"
    /\ ret.status = "ok"

\* the (height, y, x) cells of the dataset the call was given
Cells ==
    (0 .. old.dims["nz"] - 1) \X (0 .. old.dims["ny"] - 1) \X (0 .. old.dims["nx"] - 1)

\* the dataset the call was given, the data of every cell but c changed
Isolate(c) ==
    [old EXCEPT !.vars = [v \in DOMAIN old.vars |->
        [old.vars[v] EXCEPT !.val = [i \in DOMAIN old.vars[v].val |->
            IF <<i[2], i[3], i[4]>> = c THEN old.vars[v].val[i]
            ELSE <<(old.vars[v].val[i][1] + 1) % (MaxVal + 1), 1>>]]]]

\* the dataset that the same call leaves when only cell c has its data
Isolated(c) ==
    model4D_calcQOIs(Isolate(c), call.mean_dim, call.data_type, call.mean_opt,
                     call.lowess_delta, call.frac_checked).ds

\* C16: in 'lowess' mode the mean of every variable has the shape of the
\* input (the time axis is retained) and the mean series of a (height, y,
\* x) cell depends only on that cell's own input series: changing the data
\* of every other cell leaves it unchanged.
C16_CellsSmoothedIndependently ==
    LowessDone =>
        /\ \A v \in MeanedVars : StoredMean(v).dims = DimNames
        /\ \A c \in Cells : \A v \in MeanedVars :
              \A t \in 0 .. old.dims["datetime"] - 1 :
                 Isolated(c).vars[MeanName[v]].val[<<t, c[1], c[2], c[3]>>]
                    = StoredMean(v).val[<<t, c[1], c[2], c[3]>>]

\* a smoothed mean of a dataset with two points along every axis
C16_Witness ==
    /\ LowessDone
    /\ \A d \in DimNames : old.dims[d] = 2
    /\ "pMean" \in DOMAIN ds.vars

\* C17: after a call that returns the augmented dataset, the attribute
\* MEAN_OPT is the mean_opt argument, and WINDOW_SIZE and LOWESS_DELTA are
\* present exactly when mean_opt is 'lowess': WINDOW_SIZE is then the window
\* size from which the smoothing fraction of every smoothed mean was formed
\* and LOWESS_DELTA is the lowess_delta argument.
C17_AttributesRecorded ==
    AugmentDone =>
        /\ "MEAN_OPT" \in DOMAIN ds.attrs
        /\ ds.attrs["MEAN_OPT"] = call.mean_opt
        /\ ("WINDOW_SIZE" \in DOMAIN ds.attrs) <=> (call.mean_opt = "lowess")
        /\ ("LOWESS_DELTA" \in DOMAIN ds.attrs) <=> (call.mean_opt = "lowess")
        /\ call.mean_opt = "lowess" =>
              /\ ds.attrs["LOWESS_DELTA"] = call.lowess_delta
              /\ \A v \in MeanedVars : \A i \in DOMAIN StoredMean(v).val :
                    /\ StoredMean(v).val[i][3] = ds.attrs["WINDOW_SIZE"]
                    /\ StoredMean(v).val[i][5] = ds.attrs["LOWESS_DELTA"]

\* a smoothed mean with a non-zero delta has been recorded
C17_Witness ==
    /\ LowessDone
    /\ call.lowess_delta = 1
    /\ "WINDOW_SIZE" \in DOMAIN ds.attrs
    /\ old.dims["datetime"] = MaxT

\* the variables every call reads, whatever the data type
Kinematic == {"u", "v", "w", "theta", "wspd", "wdir"}

\* the mean of p as the mode of the call computes it from the input
PressureMean ==
    IF call.mean_opt = "static"
    THEN MeanArr(old.vars["p"], call.mean_dim, old.dims)
    ELSE LowessArr(old.vars["p"], old.dims, old.dims[call.mean_dim],
                   call.lowess_delta)

\* C18: with data_type 'ts' the call does not need a variable p (it never
\* fails for a missing variable when the six kinematic variables are
\* there) and its result has no pMean, in 'static' and in 'lowess' mode;
\* with another data_type the result has pMean, the mean of p as the mode
\* computes it.
C18_PressureByDataType ==
    /\ (/\ call.op = "model4D_calcQOIs"
        /\ call.data_type = "ts"
        /\ call.mean_opt \in Supported
        /\ call.mean_dim \in DimNames
        /\ Kinematic \subseteq DOMAIN old.vars)
          => ret.exc # "KeyError"
    /\ (AugmentDone /\ call.data_type = "ts") => "pMean" \notin DOMAIN ds.vars
    /\ (AugmentDone /\ call.data_type # "ts") =>
          /\ "pMean" \in DOMAIN ds.vars
          /\ ds.vars["pMean"] = PressureMean

\* a tower dataset without pressure has been smoothed
C18_Witness ==
    /\ LowessDone
    /\ call.data_type = "ts"
    /\ "p" \notin DOMAIN old.vars
    /\ "uMean" \in DOMAIN ds.vars
    /\ old.dims["datetime"] > 1

\* the perturbation of raw variable v: the input less its stored mean
Perturbation(v) == ASub(old.vars[v], StoredMean(v))

\* C19: after the call TKE is 0.5 * sqrt(UU + ww) at every index, UU being
\* the square of the perturbation of wspd and ww the square of the
\* perturbation of w.
C19_TKE ==
    AugmentDone =>
        /\ ds.vars["UU"] = AMul(Perturbation("wspd"), Perturbation("wspd"))
        /\ ds.vars["ww"] = AMul(Perturbation("w"), Perturbation("w"))
        /\ ds.vars["TKE"].fn = "halfsqrt"
        /\ ds.vars["TKE"].val = AAdd(ds.vars["UU"], ds.vars["ww"]).val

\* a static call whose TKE has a non-zero radicand somewhere
C19_Witness ==
    /\ StaticDone
    /\ call.mean_dim = "datetime"
    /\ \E i \in DOMAIN ds.vars["TKE"].val :
          /\ ds.vars["UU"].val[i][1] > 0
          /\ ds.vars["ww"].val[i][1] > 0
          /\ ds.vars["TKE"].val[i][1] > 0

----------------------------------------------------------------------------
(* The accumulator of the spatial estimators, checked under SpecSpectra.    *)

\* the periodogram term of the series at (level, iLoc) and time instance it
OwnTerm(level, iLoc, it) ==
    LET fixes == ("datetime" :> it) @@ ("nz" :> level) @@ ("nx" :> iLoc)
        sr == SampleRate(ds, call.spectra_dim, FALSE)
        P(fld, fldMean) ==
            Welch(SpatialSeries(ds, fld, fldMean, fixes).series, sr.fs, sr.nblock).Pxxfc
    IN IF call.op = "model4D_spatial_spectra"
       THEN Multiply(Real(P(call.fld, call.fldMean)), Conj(P(call.fld, call.fldMean)))
       ELSE CoPower(P(call.fldv0, call.fldv0Mean), P(call.fldv1, call.fldv1Mean))

RECURSIVE OwnSum(_, _, _)
\* the sum of the terms of (level, iLoc) over the first n time instances
OwnSum(level, iLoc, n) ==
    IF n = 0 THEN Zeros(ds.dims[call.spectra_dim])
    ELSE Plus(OwnSum(level, iLoc, n - 1), OwnTerm(level, iLoc, n - 1))

\* C20: in model4D_spatial_spectra and model4D_spatial_cospectra the slot
\* of the k-th selected level and the i-th selected location holds the sum
\* over every time instance 0..Nt-1, the first included, of the periodogram
\* term of the series at that level and location, and nothing of another
\* location; the sum is divided by Nt.
C20_SlotHoldsOwnSum ==
    (call.op \in SpatialOps /\ ret.status = "ok")
        => \A cl \in 1 .. Len(call.vert_levels) :
             \A ci \in 1 .. Len(call.horizontal_locs) :
                \A k \in DOMAIN ret.Puuf[<<cl - 1, ci - 1>>] :
                   /\ ret.Puuf[<<cl - 1, ci - 1>>][k].coef
                         = Norm(2, ds.dims["datetime"])
                   /\ ret.Puuf[<<cl - 1, ci - 1>>][k].sum
                         = OwnSum(call.vert_levels[cl], call.horizontal_locs[ci],
                                  ds.dims["datetime"])[k]

----------------------------------------------------------------------------
(* The series the estimators transform, checked under SpecSpectra.          *)

\* the sample spacing of the axis named by the call's spectra_dim is
\* resolved: the name is an axis of the dataset and holds an 'x' or a 'y',
\* or it is 'datetime' in an estimator that averages over a chosen axis
SpacingResolved ==
    /\ call.spectra_dim \in DOMAIN ds.dims
    /\ \/ Contains(call.spectra_dim, "y")
       \/ Contains(call.spectra_dim, "x")
       \/ call.spectra_dim = "datetime" /\ call.op \in TemporalOps

\* the sample rate 1/dt of the axis named by spectra_dim
AxisRate ==
    IF Contains(call.spectra_dim, "y") THEN <<ds.attrs["DY"][2], ds.attrs["DY"][1]>>
    ELSE IF Contains(call.spectra_dim, "x")
    THEN <<ds.attrs["DX"][2], ds.attrs["DX"][1]>>
    ELSE Norm(1000000000, ds.coords.datetime[1] - ds.coords.datetime[0])

\* the (field, mean) pairs the call names
CallFields ==
    IF call.op \in CoOps
    THEN {<<call.fldv0, call.fldv0Mean>>, <<call.fldv1, call.fldv1Mean>>}
    ELSE {<<call.fld, call.fldMean>>}

\* the perturbation series that run along spectra_dim at a selected level
AlongSpectraDim ==
    {Series(ds.vars[fp[1]], ds.vars[fp[2]], fixes, call.spectra_dim, ds.dims) :
        fp \in CallFields,
        fixes \in {g \in [DimNames \ {call.spectra_dim} -> 0 .. MaxT] :
                     /\ \A d \in DOMAIN g : g[d] < ds.dims[d]
                     /\ \E l \in 1 .. Len(call.vert_levels) :
                           g["nz"] = call.vert_levels[l]}}

\* the periodograms that went into the returned power array
Transformed ==
    UNION {UNION {UNION {{t[1], t[2]} : t \in BagToSet(ret.Puuf[s][k].sum)} :
                    k \in 1 .. Len(ret.Puuf[s])} :
             s \in DOMAIN ret.Puuf}

\* C21: for every spectra_dim whose sample spacing is resolved, each of the
\* four estimators transforms at every pass of its loops a freshly selected
\* series that runs along the axis named by spectra_dim, nblock long and
\* sampled at the dt of that axis; it never reaches the transform with no
\* series selected, nor with one that runs along another axis.
C21_SeriesAlongSpectraDim ==
    (/\ call.op \in SpectralOps
     /\ SpacingResolved
     /\ call.vert_levels # << >>
     /\ call.horizontal_locs # << >>)
        => /\ ret.exc # "UnboundLocalError"
           /\ ret.status = "ok" =>
                 \A w \in Transformed :
                    /\ w[2] \in AlongSpectraDim
                    /\ Len(w[2]) = ds.dims[call.spectra_dim]
                    /\ w[3] = AxisRate
                    /\ w[4] = ds.dims[call.spectra_dim]

----------------------------------------------------------------------------
(* The names of the second moments, checked under SpecQOI.                  *)

\* every second moment <<name, a, b>> as its name spells it
NamedMoments == Products \cup {<<"Uw", "wspd", "w">>}

\* C22: every second moment that model4D_calcQOIs stores under a
\* two-component name is the pointwise product of the perturbations of the
\* two components named: uu, vv, ww, uv, uw, vw, wth, UU = wspd'wspd' and
\* Uw = wspd'w'.
C22_MomentsAsNamed ==
    AugmentDone =>
        \A m \in NamedMoments :
            ds.vars[m[1]] = AMul(Perturbation(m[2]), Perturbation(m[3]))

----------------------------------------------------------------------------
(* The two distribution estimators compared, checked under SpecPdfs.        *)

\* what model4D_pdfs returns for the arguments of the call
AsPdfs ==
    model4D_pdfs(ds, call.pdf_dim, call.vert_levels, call.horizontal_locs,
                 call.fld, call.fldMean, call.bins_vector)

\* C23: for the same dataset, field, levels, locations and bin edges,
\* model4D_spatial_pdfs returns what model4D_pdfs returns: the same
\* histogram array, bin edges, skewness and kurtosis.
C23_SpatialPdfsAgree ==
    call.op = "model4D_spatial_pdfs" => ret = AsPdfs

====
